---- MODULE Spec2Model ----
(***************************************************************************)
(* A model of the twintalk-core runtime: the in-memory event/snapshot      *)
(* store (storage/memory_store.rs), the event store on the embedded        *)
(* database (storage/sled_store.rs), the Twin message dispatch (twin.rs)   *)
(* and the Runtime registry with lazy loading, snapshots and eviction      *)
(* (runtime.rs).  Tasks run on a multi-threaded executor, so every         *)
(* operation is split at each access to shared state.                      *)
(***************************************************************************)
EXTENDS Integers, Sequences, FiniteSets, TLC

VARIABLES
    events,               \* MemoryEventStore.events: version -> TwinEvent
    twin_events,          \* MemoryEventStore.twin_events: twin id -> Seq(version)
    snapshots,            \* MemoryEventStore.snapshots: twin id -> TwinSnapshot
    version_counter,      \* MemoryEventStore.version_counter
    active_twins,         \* Runtime.active_twins: twin id -> Arc<ActiveTwin> (a slot)
    inst,                 \* the ActiveTwin objects alive on the heap, by slot
    snapshot_on_eviction, \* RuntimeConfig.snapshot_on_eviction
    uuid_counter,         \* how many twins create_twin and create_hypothetical_twin made
    loc,                  \* per task: the operation it runs, its position and locals
    history,              \* (history) versions returned by append, in order of return
    hypothetical_ids,     \* (history) ids returned by create_hypothetical_twin
    last_evicted,         \* (history) id -> what get_twin showed when eviction removed it
    sled_events,          \* SledEventStore.events: version bytes -> encoded TwinEvent
    sled_twin_events,     \* SledEventStore.twin_events: twin id -> encoded Vec<u64>
    sled_version_counter, \* SledEventStore.version_counter
    sled_history          \* (history) (version, event) of the sled appends that returned

vars == <<events, twin_events, snapshots, version_counter, active_twins, inst,
          snapshot_on_eviction, uuid_counter, loc, history, hypothetical_ids,
          last_evicted, sled_events, sled_twin_events, sled_version_counter,
          sled_history>>

sledVars == <<sled_events, sled_twin_events, sled_version_counter, sled_history>>

storeVars == <<events, twin_events, snapshots, version_counter, history>>

----------------------------------------------------------------------------
(* Bounds of the model *)

MaxVersion == 3
MaxTwins == 1

(* RuntimeConfig.eviction_timeout.  Time is counted in units of it: an age  *)
(* is below it (0), equal to it (1) or above it (2), which are the cases    *)
(* the sweep's comparison tells apart.                                      *)
EvictionTimeout == 1

(* Tasks that call into the runtime concurrently; Main is the one task of  *)
(* the sequential specifications.                                          *)
Procs == {"t1", "t2"}
Main == "t1"

(* Twin ids are random 128-bit values.  The ids the runtime hands out are   *)
(* 1..MaxTwins; UnknownId is an id of no twin (tests: `let fake_id =        *)
(* TwinId::new()`), GeneratedId stands for an id that Twin::new() generates *)
(* and that nobody was given: it differs from every id a caller can name.   *)
UnknownId == 0
GeneratedId == -1

(* RuntimeConfig::max_active_twins = Some(MaxTwins); no code reads the field *)
max_active_twins == {MaxTwins}

(* the number of twins in the specifications about several twins *)
FleetSize == MaxTwins + 1

Classes == {"Sensor", "Pump"}
Floats == {20, 40}

----------------------------------------------------------------------------
(* Maps (BTreeMap / DashMap) as functions with a finite domain *)

EmptyMap == [x \in {} |-> 0]

MapInsert(m, k, v) == [x \in (DOMAIN m) \cup {k} |-> IF x = k THEN v ELSE m[x]]

MapRemove(m, k) == [x \in (DOMAIN m) \ {k} |-> m[x]]

MapGet(m, k, default) == IF k \in DOMAIN m THEN m[k] ELSE default

SetMax(S) == IF S = {} THEN 0 ELSE CHOOSE x \in S : \A y \in S : y <= x

----------------------------------------------------------------------------
(* Value (value.rs) *)

Nil == [type |-> "Nil"]

Float(x) == [type |-> "Float", v |-> x]

Boolean(b) == [type |-> "Boolean", v |-> b]

(* Value::as_f64 : Float and Integer coerce, everything else is None ({}) *)
as_f64(val) == IF val.type \in {"Float", "Integer"} THEN {val.v} ELSE {}

----------------------------------------------------------------------------
(* Twin (twin.rs).  Option<T> is a set with at most one element. *)

TwinNew(id, class_name) ==
    [id |-> id, class_name |-> class_name, properties |-> EmptyMap,
     parent_id |-> {}, is_hypothetical |-> FALSE]

(* Message::UpdateProperties: inserts in list order *)
InsertReplacing(props, updates) ==
    IF updates = <<>> THEN props
    ELSE MapInsert(EmptyMap, updates[Len(updates)][1], updates[Len(updates)][2])

RECURSIVE InsertKeepingFirst(_, _)
InsertKeepingFirst(props, updates) ==
    IF updates = <<>> THEN props
    ELSE MapInsert(InsertKeepingFirst(props, Tail(updates)), updates[1][1], updates[1][2])

RECURSIVE InsertAll(_, _)
InsertAll(props, updates) ==
    IF updates = <<>> THEN props
    ELSE InsertAll(MapInsert(props, updates[1][1], updates[1][2]), Tail(updates))

OptOr(opt, default) == IF opt = {} THEN default ELSE CHOOSE x \in opt : TRUE

(* Twin::handle_custom_message *)
HandleCustomMessage(twin, selector) ==
    IF selector = "checkAlert"
    THEN LET temp == OptOr(IF "temperature" \in DOMAIN twin.properties
                           THEN as_f64(twin.properties["temperature"]) ELSE {}, 0)
             threshold == OptOr(IF "threshold" \in DOMAIN twin.properties
                                THEN as_f64(twin.properties["threshold"]) ELSE {}, 30)
             alert == temp > threshold
         IN [twin |-> [twin EXCEPT !.properties = MapInsert(@, "alert", Boolean(alert))],
             ok |-> TRUE, value |-> Boolean(alert)]
    ELSE [twin |-> twin, ok |-> FALSE, value |-> Nil]

(* Twin::send : the twin after the message, whether it succeeded, its result *)
TwinSend(twin, m) ==
    CASE m.kind = "GetProperty" ->
            [twin |-> twin, ok |-> TRUE, value |-> MapGet(twin.properties, m.name, Nil)]
      [] m.kind = "SetProperty" ->
            [twin |-> [twin EXCEPT !.properties = MapInsert(@, m.name, m.value)],
             ok |-> TRUE, value |-> Nil]
      [] m.kind = "UpdateProperties" ->
            [twin |-> [twin EXCEPT !.properties = InsertAll(@, m.updates)],
             ok |-> TRUE, value |-> Nil]
      [] m.kind = "Send" -> HandleCustomMessage(twin, m.selector)
      [] OTHER -> [twin |-> twin, ok |-> FALSE, value |-> Nil]

GetProperty(name) == [kind |-> "GetProperty", name |-> name]

SetProperty(name, value) == [kind |-> "SetProperty", name |-> name, value |-> value]

UpdateProperties(updates) == [kind |-> "UpdateProperties", updates |-> updates]

SendMsg(selector) == [kind |-> "Send", selector |-> selector]

Destroy == [kind |-> "Destroy"]

Initialize == [kind |-> "Initialize"]

(* Twin::new with its timestamps: created_at = updated_at = Utc::now() *)
TwinStateNew(id, class_name, now) ==
    [id |-> id, class_name |-> class_name, properties |-> EmptyMap,
     parent_id |-> {}, is_hypothetical |-> FALSE, created_at |-> now, updated_at |-> now,
     simulation_time |-> {}]

(* Twin::clone_twin: the state is cloned, then id, parent_id and the        *)
(* timestamps are assigned; id is what TwinId::new() returned               *)
clone_twin(twin, id, now) ==
    [twin EXCEPT !.id = id, !.parent_id = {twin.id}, !.created_at = now, !.updated_at = now]

(* Twin::clone_hypothetical; simulation_time is a second Utc::now() *)
clone_hypothetical(twin, id, now, later) ==
    [clone_twin(twin, id, now) EXCEPT !.is_hypothetical = TRUE, !.simulation_time = {later}]

SetSimulationTimeUnchecked(twin, time) ==
    [twin |-> [twin EXCEPT !.simulation_time = {time}], ok |-> TRUE]

(* Twin::set_simulation_time: the twin after the call and whether it was Ok *)
set_simulation_time(twin, time) ==
    IF ~twin.is_hypothetical
    THEN [twin |-> twin, ok |-> FALSE]
    ELSE [twin |-> [twin EXCEPT !.simulation_time = {time}], ok |-> TRUE]

(* Twin::send on a twin with its timestamps: updated_at = Utc::now() is     *)
(* assigned first, then the message is matched                              *)
send(twin, m, now) == TwinSend([twin EXCEPT !.updated_at = now], m)

----------------------------------------------------------------------------
(* TwinEvent (event.rs) and the in-memory store's reads (memory_store.rs) *)

CreatedEvent(id, class_name) ==
    [type |-> "Created", twin_id |-> id, class_name |-> class_name]

TelemetryEvent(id, data) ==
    [type |-> "TelemetryReceived", twin_id |-> id, data |-> data]

DestroyedEvent(id) == [type |-> "Destroyed", twin_id |-> id]

Range(f) == {f[i] : i \in DOMAIN f}

(* sort_by_key on distinct versions *)
RECURSIVE SortedSeq(_)
SortedSeq(S) ==
    IF S = {} THEN <<>>
    ELSE LET lo == CHOOSE x \in S : \A y \in S : x <= y
         IN <<lo>> \o SortedSeq(S \ {lo})

(* MemoryEventStore::get_events : the (version, event) pairs of twin_id after *)
(* after_version, ascending; index entries without a stored event are skipped *)
get_events(twin_id, after_version) ==
    LET versions == MapGet(twin_events, twin_id, <<>>)
        kept == {v \in Range(versions) : v > after_version /\ v \in DOMAIN events}
        order == SortedSeq(kept)
    IN [i \in 1..Len(order) |-> <<order[i], events[order[i]]>>]

(* MemoryEventStore::get_latest_version *)
get_latest_version == version_counter

(* MemoryEventStore::get_snapshot : Some(snapshot) or None *)
get_snapshot(twin_id) == IF twin_id \in DOMAIN snapshots THEN {snapshots[twin_id]} ELSE {}

(* The f64 -> Value::Float boxing of telemetry pairs (runtime.rs) *)
BoxTelemetry(data) == [i \in 1..Len(data) |-> <<data[i][1], Float(data[i][2])>>]

(* Runtime::apply_event *)
apply_event(twin, event) ==
    CASE event.type = "PropertyChanged" ->
            TwinSend(twin, SetProperty(event.property, event.new_value)).twin
      [] event.type = "TelemetryReceived" ->
            TwinSend(twin, UpdateProperties(BoxTelemetry(event.data))).twin
      [] OTHER -> twin

----------------------------------------------------------------------------
(* Tasks.  loc[p] holds the operation task p runs (op), its position (pc)  *)
(* and its locals.  get_twin and the store's append leave their result     *)
(* (the handle, the version) with the task in pc = "done"; the operations  *)
(* whose result the caller cannot use further return the task to "idle".   *)

IdleLoc ==
    [pc |-> "idle", op |-> "none", id |-> UnknownId, ok |-> FALSE, err |-> "none",
     data |-> <<>>, ev |-> {}, ver |-> 0, pre_ret |-> 0, pre_ctr |-> 0,
     snap |-> {}, tw |-> {}, cap |-> {}, sver |-> 0, h |-> 0,
     loaded |-> FALSE, to_evict |-> {}, versions |-> <<>>, stats |-> {}]

CanCall(p) == loc[p].pc \in {"idle", "done"}

Done(l) ==
    CASE l.op = "get_twin" ->
            [IdleLoc EXCEPT !.pc = "done", !.op = l.op, !.id = l.id, !.ok = TRUE,
                            !.h = l.h, !.loaded = l.loaded]
      [] l.op = "stats" ->
            [IdleLoc EXCEPT !.pc = "done", !.op = l.op, !.ok = TRUE, !.stats = l.stats]
      [] l.op \in {"append", "sled_append"} ->
            [IdleLoc EXCEPT !.pc = "done", !.op = l.op, !.ok = TRUE, !.ver = l.ver,
                            !.pre_ret = l.pre_ret, !.pre_ctr = l.pre_ctr]
      [] OTHER -> IdleLoc

Failed(l, err) ==
    IF l.op = "get_twin"
    THEN [IdleLoc EXCEPT !.pc = "done", !.op = l.op, !.id = l.id, !.ok = FALSE, !.err = err]
    ELSE IdleLoc

(* ActiveTwin objects live in slots; a slot is freed when neither the       *)
(* registry nor any task's handle refers to it (the Arc is dropped).        *)
Slots == 1..(FleetSize + Cardinality(Procs))

NoInst == [live |-> FALSE]

FreeSlot == CHOOSE s \in Slots : ~inst[s].live /\ \A t \in Slots : ~inst[t].live => s <= t

Collect(heap, registry, locals) ==
    [s \in Slots |->
        IF s \in Range(registry) \/ \E q \in Procs : locals[q].h = s
        THEN heap[s] ELSE NoInst]

(* last_accessed is kept as the time since the last access, idle =          *)
(* now.duration_since(last_accessed), counted up to EvictionTimeout + 1:    *)
(* the program only ever compares it with eviction_timeout.                 *)
IdleCap == EvictionTimeout + 1

(* ActiveTwin::new : last_accessed = Instant::now() *)
ActiveTwinNew(twin) == [live |-> TRUE, twin |-> twin, idle |-> 0]

(* ActiveTwin::touch : last_accessed = Instant::now() *)
Touch(heap, s) == [heap EXCEPT ![s].idle = 0]

(* the clock advances by one tick *)
Tick ==
    /\ \E s \in Slots : inst[s].live /\ inst[s].idle < IdleCap
    /\ inst' = [s \in Slots |->
                  IF inst[s].live /\ inst[s].idle < IdleCap
                  THEN [inst[s] EXCEPT !.idle = @ + 1] ELSE inst[s]]
    /\ UNCHANGED <<sledVars, storeVars, active_twins, snapshot_on_eviction, uuid_counter, loc,
                   hypothetical_ids, last_evicted>>

----------------------------------------------------------------------------
(* MemoryEventStore::append, in its three accesses to shared state *)

(* the version an append is assigned: fetch_add(1) + 1 *)
AssignedVersionOffByOne(previous) == previous

AssignedVersionReused(previous) == IF previous = 0 THEN 1 ELSE previous

AssignedVersion(previous) == previous + 1

(* The model stops issuing appends at MaxVersion *)
AppendBudget ==
    version_counter + Cardinality({q \in Procs : loc[q].pc = "ap_fetch"}) < MaxVersion

BeginAppend(l, event) ==
    [l EXCEPT !.pc = "ap_fetch", !.ev = {event},
              !.pre_ret = SetMax(Range(history)), !.pre_ctr = get_latest_version]

StoreEvents ==
    {CreatedEvent(1, "Sensor"), TelemetryEvent(1, <<<<"temperature", 20>>>>),
     TelemetryEvent(2, <<<<"temperature", 40>>>>)}

(* a caller of the store's own interface (tests/event_store_tests.rs) *)
CallAppend(p, event) ==
    /\ CanCall(p)
    /\ AppendBudget
    /\ loc' = [loc EXCEPT ![p] = BeginAppend([IdleLoc EXCEPT !.op = "append"], event)]
    /\ inst' = Collect(inst, active_twins, loc')
    /\ UNCHANGED <<sledVars, storeVars, active_twins, snapshot_on_eviction, uuid_counter,
                   hypothetical_ids, last_evicted>>

AppendFetchAdd(p) ==
    /\ loc[p].pc = "ap_fetch"
    /\ version_counter' = version_counter + 1
    /\ loc' = [loc EXCEPT ![p].pc = "ap_events", ![p].ver = AssignedVersion(version_counter)]
    /\ UNCHANGED <<sledVars, events, twin_events, snapshots, history, active_twins, inst,
                   snapshot_on_eviction, uuid_counter, hypothetical_ids, last_evicted>>

AppendInsertEvent(p) ==
    /\ loc[p].pc = "ap_events"
    /\ events' = MapInsert(events, loc[p].ver, CHOOSE e \in loc[p].ev : TRUE)
    /\ loc' = [loc EXCEPT ![p].pc = "ap_index"]
    /\ UNCHANGED <<sledVars, twin_events, snapshots, version_counter, history, active_twins, inst,
                   snapshot_on_eviction, uuid_counter, hypothetical_ids, last_evicted>>

(* where the caller of append continues *)
AfterAppend(l) ==
    CASE l.op = "create_twin" -> [l EXCEPT !.pc = "ct_insert", !.ev = {}]
      [] l.op = "update_telemetry" -> [l EXCEPT !.pc = "ut_apply", !.ev = {}]
      [] OTHER -> Done([l EXCEPT !.ev = {}])

AppendIndex(p) ==
    /\ loc[p].pc = "ap_index"
    /\ LET twin_id == (CHOOSE e \in loc[p].ev : TRUE).twin_id
       IN /\ twin_events' = MapInsert(twin_events, twin_id,
                               Append(MapGet(twin_events, twin_id, <<>>), loc[p].ver))
          /\ last_evicted' = MapRemove(last_evicted, twin_id)
    /\ history' = Append(history, loc[p].ver)
    /\ loc' = [loc EXCEPT ![p] = AfterAppend(loc[p])]
    /\ UNCHANGED <<sledVars, events, snapshots, version_counter, active_twins, inst,
                   snapshot_on_eviction, uuid_counter, hypothetical_ids>>

(* EventStore::append returns Err.  The in-memory store never does; a store *)
(* given to Runtime::with_stores can, and SledEventStore::append propagates *)
(* an error from each of its steps after the fetch_add.  The callers        *)
(* (create_twin, update_telemetry) return the error with `?`.               *)

(* encode_to_vec or events.insert fails: the version is taken, nothing stored *)
AppendFailsAtInsert(p) ==
    /\ loc[p].pc = "ap_events"
    /\ loc' = [loc EXCEPT ![p] = Failed([loc[p] EXCEPT !.ev = {}], "StorageFailure")]
    /\ inst' = Collect(inst, active_twins, loc')
    /\ UNCHANGED <<sledVars, storeVars, active_twins, snapshot_on_eviction, uuid_counter,
                   hypothetical_ids, last_evicted>>

(* index_event fails: the event is stored, the index does not list it *)
AppendFailsAtIndex(p) ==
    /\ loc[p].pc = "ap_index"
    /\ loc' = [loc EXCEPT ![p] = Failed([loc[p] EXCEPT !.ev = {}], "StorageFailure")]
    /\ inst' = Collect(inst, active_twins, loc')
    /\ UNCHANGED <<sledVars, storeVars, active_twins, snapshot_on_eviction, uuid_counter,
                   hypothetical_ids, last_evicted>>

(* flush_async fails: the event is stored and indexed, append returns Err *)
AppendFailsAtFlush(p) ==
    /\ loc[p].pc = "ap_index"
    /\ LET twin_id == (CHOOSE e \in loc[p].ev : TRUE).twin_id
       IN /\ twin_events' = MapInsert(twin_events, twin_id,
                               Append(MapGet(twin_events, twin_id, <<>>), loc[p].ver))
          /\ last_evicted' = MapRemove(last_evicted, twin_id)
    /\ loc' = [loc EXCEPT ![p] = Failed([loc[p] EXCEPT !.ev = {}], "StorageFailure")]
    /\ inst' = Collect(inst, active_twins, loc')
    /\ UNCHANGED <<sledVars, events, snapshots, version_counter, history, active_twins,
                   snapshot_on_eviction, uuid_counter, hypothetical_ids>>

----------------------------------------------------------------------------
(* SledEventStore (sled_store.rs): keys are the big-endian bytes of the     *)
(* version, values are bincode encodings                                    *)

(* v >> (8 * n) *)
RECURSIVE ShiftBytes(_, _)
ShiftBytes(v, n) == IF n = 0 THEN v ELSE ShiftBytes(v \div 256, n - 1)

(* u64::to_be_bytes *)
to_be_bytes(v) == [i \in 1..8 |-> ShiftBytes(v, 8 - i) % 256]

(* u64::from_be_bytes *)
RECURSIVE from_be_bytes_upto(_, _)
from_be_bytes_upto(b, n) ==
    IF n = 0 THEN 0 ELSE 256 * from_be_bytes_upto(b, n - 1) + b[n]

from_be_bytes(b) == from_be_bytes_upto(b, 8)

(* bincode: the encoding of a value is a byte string that stands for it and *)
(* for nothing else; it is kept as the tagged value                         *)
encode_to_vec(x) == <<"bincode", x>>

decode_from_slice(b) == b[2]

(* SledEventStore::get_events: the index entries after after_version that   *)
(* have a stored event, in the order in which the index lists them          *)
sled_versions(twin_id) ==
    IF twin_id \in DOMAIN sled_twin_events
    THEN decode_from_slice(sled_twin_events[twin_id]) ELSE <<>>

sled_get_events(twin_id, after_version) ==
    LET Kept(v) == v > after_version /\ to_be_bytes(v) \in DOMAIN sled_events
        kept == SelectSeq(sled_versions(twin_id), Kept)
    IN [i \in 1..Len(kept) |->
            <<kept[i], decode_from_slice(sled_events[to_be_bytes(kept[i])])>>]

(* SledEventStore::get_latest_version *)
sled_get_latest_version == sled_version_counter

SledBudget ==
    sled_version_counter + Cardinality({q \in Procs : loc[q].pc = "sl_fetch"}) < MaxVersion

(* a caller of SledEventStore::append *)
CallSledAppend(p, event) ==
    /\ CanCall(p)
    /\ SledBudget
    /\ loc' = [loc EXCEPT ![p] =
                 [IdleLoc EXCEPT !.op = "sled_append", !.pc = "sl_fetch", !.ev = {event},
                     !.pre_ret = SetMax({sled_history[i][1] : i \in DOMAIN sled_history}),
                     !.pre_ctr = sled_get_latest_version]]
    /\ inst' = Collect(inst, active_twins, loc')
    /\ UNCHANGED <<sledVars, storeVars, active_twins, snapshot_on_eviction, uuid_counter,
                   hypothetical_ids, last_evicted>>

(* version_counter.fetch_add(1) + 1 *)
SledFetchAdd(p) ==
    /\ loc[p].pc = "sl_fetch"
    /\ sled_version_counter' = sled_version_counter + 1
    /\ loc' = [loc EXCEPT ![p].pc = "sl_events",
                          ![p].ver = AssignedVersion(sled_version_counter)]
    /\ UNCHANGED <<sled_events, sled_twin_events, sled_history, storeVars, active_twins,
                   inst, snapshot_on_eviction, uuid_counter, hypothetical_ids, last_evicted>>

(* events.insert(version_bytes, encoded) *)
SledInsertEvent(p) ==
    /\ loc[p].pc = "sl_events"
    /\ sled_events' = MapInsert(sled_events, to_be_bytes(loc[p].ver),
                                encode_to_vec(CHOOSE e \in loc[p].ev : TRUE))
    /\ loc' = [loc EXCEPT ![p].pc = "sl_index_get"]
    /\ UNCHANGED <<sled_twin_events, sled_version_counter, sled_history, storeVars,
                   active_twins, inst, snapshot_on_eviction, uuid_counter,
                   hypothetical_ids, last_evicted>>

(* index_event: twin_events.get(twin_key), decoded, or Vec::new() *)
SledIndexGet(p) ==
    /\ loc[p].pc = "sl_index_get"
    /\ loc' = [loc EXCEPT ![p].pc = "sl_index_put",
                  ![p].versions = sled_versions((CHOOSE e \in loc[p].ev : TRUE).twin_id)]
    /\ UNCHANGED <<sledVars, storeVars, active_twins, inst, snapshot_on_eviction,
                   uuid_counter, hypothetical_ids, last_evicted>>

(* index_event: versions.push(version); twin_events.insert(twin_key, encoded); *)
(* then append flushes and returns the version                                 *)
SledIndexInsert(p) ==
    /\ loc[p].pc = "sl_index_put"
    /\ LET event == CHOOSE e \in loc[p].ev : TRUE
       IN /\ sled_twin_events' =
                MapInsert(sled_twin_events, event.twin_id,
                          encode_to_vec(Append(loc[p].versions, loc[p].ver)))
          /\ sled_history' = Append(sled_history, <<loc[p].ver, event>>)
    /\ loc' = [loc EXCEPT ![p] = Done([loc[p] EXCEPT !.ev = {}, !.versions = <<>>])]
    /\ UNCHANGED <<sled_events, sled_version_counter, storeVars, active_twins, inst,
                   snapshot_on_eviction, uuid_counter, hypothetical_ids, last_evicted>>

(* the order of sled keys: byte strings compared from the first byte *)
BytesLess(a, b) ==
    \E i \in 1..8 : a[i] < b[i] /\ \A j \in 1..(i - 1) : a[j] = b[j]

(* Tree::last: the entry with the greatest key *)
last(tree) == {k \in DOMAIN tree : \A j \in DOMAIN tree : j = k \/ BytesLess(j, k)}

FreshCounter(tree) == 0

(* SledEventStore::new: the version of the last key of the events tree, or 0 *)
latest_version(tree) == SetMax({from_be_bytes(k) : k \in last(tree)})

(* the keys of appends that have not returned: inserted, not yet flushed *)
UnflushedKeys ==
    {to_be_bytes(loc[p].ver) : p \in {q \in Procs : loc[q].pc \in {"sl_index_get", "sl_index_put"}}}
        \cap DOMAIN sled_events

(* The process stops, possibly in the middle of appends, and the store is   *)
(* opened again with SledEventStore::new: every task is gone, any of the    *)
(* unflushed inserts may be lost, the counter is read from the events tree  *)
SledReopen ==
    \E lost \in SUBSET UnflushedKeys :
        LET kept == [k \in DOMAIN sled_events \ lost |-> sled_events[k]]
        IN /\ sled_events' = kept
           /\ sled_version_counter' = latest_version(kept)
           /\ loc' = [p \in Procs |-> IdleLoc]
           /\ inst' = Collect(inst, active_twins, loc')
           /\ UNCHANGED <<sled_twin_events, sled_history, storeVars, active_twins,
                          snapshot_on_eviction, uuid_counter, hypothetical_ids, last_evicted>>

----------------------------------------------------------------------------
(* Runtime (runtime.rs) *)

(* ids a caller can name: those create_twin and create_hypothetical_twin    *)
(* have returned                                                           *)
KnownIds ==
    {id \in 1..uuid_counter :
        \A q \in Procs : ~(loc[q].op = "create_twin" /\ loc[q].id = id)}

(* the telemetry maps callers pass to update_telemetry *)
TelemetryInputs == {<<<<"temperature", x>>>> : x \in Floats}

Resident(id) == id \in DOMAIN active_twins

TwinOf(id) == inst[active_twins[id]].twin

(* what a caller observes of a twin *)
Observable(twin) ==
    [id |-> twin.id, class_name |-> twin.class_name, properties |-> twin.properties,
     parent_id |-> twin.parent_id]

(* Runtime::create_twin: Twin::new, then append(Created) ...                 *)
(* (the model creates at most `limit` twins)                                *)
CreateTwin(p, class_name, limit) ==
    /\ CanCall(p)
    /\ uuid_counter < limit
    /\ AppendBudget
    /\ uuid_counter' = uuid_counter + 1
    /\ LET twin == TwinNew(uuid_counter + 1, class_name)
       IN loc' = [loc EXCEPT ![p] =
                    BeginAppend([IdleLoc EXCEPT !.op = "create_twin", !.id = twin.id,
                                                !.tw = {twin}],
                                CreatedEvent(twin.id, twin.class_name))]
    /\ inst' = Collect(inst, active_twins, loc')
    /\ UNCHANGED <<sledVars, storeVars, active_twins, snapshot_on_eviction, hypothetical_ids,
                   last_evicted>>

CallCreateTwin(p, class_name) == CreateTwin(p, class_name, MaxTwins)

(* ... then active_twins.insert(twin_id, ActiveTwin::new(twin)) *)
CreateInsert(p) ==
    /\ loc[p].pc = "ct_insert"
    /\ LET slot == FreeSlot
           twin == CHOOSE t \in loc[p].tw : TRUE
       IN /\ active_twins' = MapInsert(active_twins, loc[p].id, slot)
          /\ loc' = [loc EXCEPT ![p] = Done([loc[p] EXCEPT !.tw = {}])]
          /\ inst' = Collect([inst EXCEPT ![slot] = ActiveTwinNew(twin)],
                             active_twins', loc')
    /\ UNCHANGED <<sledVars, storeVars, snapshot_on_eviction, uuid_counter, hypothetical_ids,
                   last_evicted>>

(* Runtime::create_hypothetical_twin: one insert, no event *)
CallCreateHypotheticalTwin(p, class_name) ==
    /\ CanCall(p)
    /\ uuid_counter < MaxTwins
    /\ uuid_counter' = uuid_counter + 1
    /\ LET slot == FreeSlot
           twin == [TwinNew(uuid_counter + 1, class_name) EXCEPT !.is_hypothetical = TRUE]
       IN /\ active_twins' = MapInsert(active_twins, twin.id, slot)
          /\ loc' = [loc EXCEPT ![p] = IdleLoc]
          /\ inst' = Collect([inst EXCEPT ![slot] = ActiveTwinNew(twin)],
                             active_twins', loc')
          /\ hypothetical_ids' = hypothetical_ids \cup {twin.id}
    /\ UNCHANGED <<sledVars, storeVars, snapshot_on_eviction, last_evicted>>

(* where the caller of get_twin continues once it has a handle *)
AfterGetTwin(l) ==
    IF l.op = "get_twin" THEN Done(l) ELSE [l EXCEPT !.pc = "sn_capture"]

(* where the caller of get_twin continues when load_twin failed; eviction   *)
(* drops the error of its snapshot (`.ok()`)                               *)
AfterLoadError(l, err) ==
    IF l.op = "evict_inactive"
    THEN [l EXCEPT !.pc = "ev_remove", !.snap = {}]
    ELSE Failed(l, err)

(* Runtime::get_twin, first access: the registry lookup.  A hit touches the *)
(* twin while the map guard is held; a miss goes on to load_twin.           *)
GetTwinLookup(p, l) ==
    IF Resident(l.id)
    THEN /\ loc' = [loc EXCEPT ![p] = AfterGetTwin([l EXCEPT !.h = active_twins[l.id]])]
         /\ inst' = Collect(Touch(inst, active_twins[l.id]), active_twins, loc')
    ELSE /\ loc' = [loc EXCEPT ![p] = [l EXCEPT !.pc = "ld_snapshot"]]
         /\ inst' = Collect(inst, active_twins, loc')

CallGetTwin(p, id) ==
    /\ CanCall(p)
    /\ GetTwinLookup(p, [IdleLoc EXCEPT !.op = "get_twin", !.id = id])
    /\ UNCHANGED <<sledVars, storeVars, active_twins, snapshot_on_eviction, uuid_counter,
                   hypothetical_ids, last_evicted>>

(* Runtime::load_twin: snapshot_store.get_snapshot *)
LoadGetSnapshot(p) ==
    /\ loc[p].pc = "ld_snapshot"
    /\ loc' = [loc EXCEPT ![p].pc = "ld_events", ![p].snap = get_snapshot(loc[p].id)]
    /\ UNCHANGED <<sledVars, storeVars, active_twins, inst, snapshot_on_eviction, uuid_counter,
                   hypothetical_ids, last_evicted>>

(* how many of the fetched events the replay skips: usize::from(!had_snapshot) *)
ReplaySkipAlways(had_snapshot) == 1

ReplaySkip(had_snapshot) == IF had_snapshot THEN 0 ELSE 1

RECURSIVE Replay(_, _, _)
Replay(twin, evs, i) ==
    IF i > Len(evs) THEN twin ELSE Replay(apply_event(twin, evs[i][2]), evs, i + 1)

LoadBuildUnchecked(snap, evs) ==
    IF evs = <<>> /\ snap = {} THEN [ok |-> FALSE, err |-> "NotFound"]
    ELSE [ok |-> TRUE, err |-> "none", twin |-> Replay(TwinNew(GeneratedId, "Sensor"), evs, 1)]

LoadBuildDefaultTwin(snap, evs) ==
    [ok |-> TRUE, err |-> "none", twin |-> TwinNew(GeneratedId, "Sensor")]

(* Runtime::load_twin after the two reads: the twin it builds, or its error. *)
(* Without a snapshot the twin comes from Twin::new(class_name), which       *)
(* generates a new id.                                                       *)
LoadBuild(snap, evs) ==
    IF evs = <<>> /\ snap = {} THEN [ok |-> FALSE, err |-> "NotFound"]
    ELSE IF snap # {}
    THEN LET s == CHOOSE x \in snap : TRUE
             state == [id |-> s.twin_id, class_name |-> s.class_name,
                       properties |-> s.properties, parent_id |-> s.parent_id,
                       is_hypothetical |-> FALSE]
         IN [ok |-> TRUE, err |-> "none",
             twin |-> Replay(state, evs, 1 + ReplaySkip(TRUE))]
    ELSE IF evs[1][2].type = "Created"
    THEN [ok |-> TRUE, err |-> "none",
          twin |-> Replay(TwinNew(GeneratedId, evs[1][2].class_name), evs,
                          1 + ReplaySkip(FALSE))]
    ELSE [ok |-> FALSE, err |-> "CorruptLog"]

(* Runtime::apply_event with the clock reading of Twin::send *)
apply_event_at(twin, event, now) ==
    CASE event.type = "PropertyChanged" ->
            send(twin, SetProperty(event.property, event.new_value), now).twin
      [] event.type = "TelemetryReceived" ->
            send(twin, UpdateProperties(BoxTelemetry(event.data)), now).twin
      [] OTHER -> twin

ReplayStamped(twin, evs, i, now) ==
    [twin EXCEPT !.properties = MapInsert(@, "replayed_at", Float(now))]

RECURSIVE ReplayAt(_, _, _, _)
ReplayAt(twin, evs, i, now) ==
    IF i > Len(evs) THEN twin ELSE ReplayAt(apply_event_at(twin, evs[i][2], now), evs, i + 1, now)

(* Runtime::load_twin after the two reads, with what the run of the load   *)
(* brings in: the id TwinId::new() generates in Twin::new, the time of     *)
(* Twin::new (now) and the time of the sends of the replay (later)         *)
LoadBuildAt(snap, evs, id, now, later) ==
    IF evs = <<>> /\ snap = {} THEN [ok |-> FALSE, err |-> "NotFound"]
    ELSE IF snap # {}
    THEN LET s == CHOOSE x \in snap : TRUE
             state == [id |-> s.twin_id, class_name |-> s.class_name,
                       properties |-> s.properties, parent_id |-> s.parent_id,
                       created_at |-> s.timestamp, updated_at |-> s.timestamp,
                       is_hypothetical |-> FALSE, simulation_time |-> {}]
         IN [ok |-> TRUE, err |-> "none",
             twin |-> ReplayAt(state, evs, 1 + ReplaySkip(TRUE), later)]
    ELSE IF evs[1][2].type = "Created"
    THEN [ok |-> TRUE, err |-> "none",
          twin |-> ReplayAt(TwinStateNew(id, evs[1][2].class_name, now), evs,
                            1 + ReplaySkip(FALSE), later)]
    ELSE [ok |-> FALSE, err |-> "CorruptLog"]

(* start_version: the snapshot's event_version, or 0 *)
StartVersion(snap) == IF snap = {} THEN 0 ELSE (CHOOSE x \in snap : TRUE).event_version

(* Runtime::load_twin: event_store.get_events, then the replay *)
LoadGetEvents(p) ==
    /\ loc[p].pc = "ld_events"
    /\ LET r == LoadBuild(loc[p].snap, get_events(loc[p].id, StartVersion(loc[p].snap)))
       IN IF r.ok
          THEN loc' = [loc EXCEPT ![p].pc = "ld_insert", ![p].tw = {r.twin},
                                  ![p].snap = {}]
          ELSE loc' = [loc EXCEPT ![p] = AfterLoadError(loc[p], r.err)]
    /\ UNCHANGED <<sledVars, storeVars, active_twins, inst, snapshot_on_eviction, uuid_counter,
                   hypothetical_ids, last_evicted>>

(* Runtime::load_twin: active_twins.insert(twin_id, active.clone()) *)
LoadInsert(p) ==
    /\ loc[p].pc = "ld_insert"
    /\ LET slot == FreeSlot
           twin == CHOOSE t \in loc[p].tw : TRUE
       IN /\ active_twins' = MapInsert(active_twins, loc[p].id, slot)
          /\ loc' = [loc EXCEPT ![p] =
                       AfterGetTwin([loc[p] EXCEPT !.tw = {}, !.h = slot, !.loaded = TRUE])]
          /\ inst' = Collect([inst EXCEPT ![slot] = ActiveTwinNew(twin)],
                             active_twins', loc')
    /\ last_evicted' = MapRemove(last_evicted, loc[p].id)
    /\ UNCHANGED <<sledVars, storeVars, snapshot_on_eviction, uuid_counter, hypothetical_ids>>

(* Runtime::update_telemetry, first access: is the resident twin hypothetical? *)
(* If not (or not resident), the TelemetryReceived event is appended.          *)
CallUpdateTelemetry(p, id, data) ==
    /\ CanCall(p)
    /\ LET is_hypothetical == IF Resident(id) THEN TwinOf(id).is_hypothetical ELSE FALSE
           l == [IdleLoc EXCEPT !.op = "update_telemetry", !.id = id, !.data = data]
       IN IF ~is_hypothetical
          THEN /\ AppendBudget
               /\ loc' = [loc EXCEPT ![p] = BeginAppend(l, TelemetryEvent(id, data))]
          ELSE loc' = [loc EXCEPT ![p] = [l EXCEPT !.pc = "ut_apply"]]
    /\ inst' = Collect(inst, active_twins, loc')
    /\ UNCHANGED <<sledVars, storeVars, active_twins, snapshot_on_eviction, uuid_counter,
                   hypothetical_ids, last_evicted>>

(* Runtime::update_telemetry, last access: if the twin is resident, touch it *)
(* and send it UpdateProperties under its write lock                         *)
UpdateApply(p) ==
    /\ loc[p].pc = "ut_apply"
    /\ loc' = [loc EXCEPT ![p] = Done(loc[p])]
    /\ IF Resident(loc[p].id)
       THEN LET s == active_twins[loc[p].id]
                sent == TwinSend(inst[s].twin, UpdateProperties(BoxTelemetry(loc[p].data)))
            IN inst' = [Touch(inst, s) EXCEPT ![s].twin = sent.twin]
       ELSE UNCHANGED inst
    /\ UNCHANGED <<sledVars, storeVars, active_twins, snapshot_on_eviction, uuid_counter,
                   hypothetical_ids, last_evicted>>

(* The caller drops the future of update_telemetry while it waits at        *)
(* active.touch().await / active.twin.write().await: the event is appended, *)
(* the rest of the body never runs.                                         *)
CancelUpdateTelemetry(p) ==
    /\ loc[p].pc = "ut_apply"
    /\ Resident(loc[p].id)
    /\ loc' = [loc EXCEPT ![p] = IdleLoc]
    /\ UNCHANGED <<sledVars, storeVars, active_twins, inst, snapshot_on_eviction, uuid_counter,
                   hypothetical_ids, last_evicted>>

(* Runtime::snapshot_twin: starts with get_twin *)
CallSnapshotTwin(p, id) ==
    /\ CanCall(p)
    /\ GetTwinLookup(p, [IdleLoc EXCEPT !.op = "snapshot_twin", !.id = id])
    /\ UNCHANGED <<sledVars, storeVars, active_twins, snapshot_on_eviction, uuid_counter,
                   hypothetical_ids, last_evicted>>

(* ... reads the twin's state under its read lock ... *)
SnapCapture(p) ==
    /\ loc[p].pc = "sn_capture"
    /\ LET state == inst[loc[p].h].twin
       IN loc' = [loc EXCEPT ![p].pc = "sn_version",
                             ![p].cap = {[class_name |-> state.class_name,
                                          properties |-> state.properties,
                                          parent_id |-> state.parent_id]}]
    /\ UNCHANGED <<sledVars, storeVars, active_twins, inst, snapshot_on_eviction, uuid_counter,
                   hypothetical_ids, last_evicted>>

(* ... reads event_store.get_latest_version() ... *)
SnapVersion(p) ==
    /\ loc[p].pc = "sn_version"
    /\ loc' = [loc EXCEPT ![p].pc = "sn_save", ![p].sver = get_latest_version]
    /\ UNCHANGED <<sledVars, storeVars, active_twins, inst, snapshot_on_eviction, uuid_counter,
                   hypothetical_ids, last_evicted>>

(* Snapshot timestamps (Utc::now() at the save) are kept as their rank      *)
(* among the stored snapshots, 1 for the oldest: the program only compares  *)
(* them with each other and with the `before` of cleanup_old_snapshots.     *)
(* The snapshots other than twin_id's, ranked again without it:             *)
OtherSnapshots(twin_id) ==
    [x \in DOMAIN snapshots \ {twin_id} |->
        IF twin_id \in DOMAIN snapshots /\ snapshots[x].timestamp > snapshots[twin_id].timestamp
        THEN [snapshots[x] EXCEPT !.timestamp = @ - 1]
        ELSE snapshots[x]]

SaveIfAbsent(snapshot) ==
    IF snapshot.twin_id \in DOMAIN snapshots THEN snapshots
    ELSE MapInsert(snapshots, snapshot.twin_id,
                   [snapshot EXCEPT !.timestamp = Cardinality(DOMAIN snapshots) + 1])

(* MemoryEventStore::save_snapshot: an upsert by twin id; the snapshot saved *)
(* now is the newest                                                         *)
save_snapshot(snapshot) ==
    LET others == OtherSnapshots(snapshot.twin_id)
    IN MapInsert(others, snapshot.twin_id,
                 [snapshot EXCEPT !.timestamp = Cardinality(DOMAIN others) + 1])

(* ... and saves the snapshot *)
SnapSave(p) ==
    /\ loc[p].pc = "sn_save"
    /\ LET c == CHOOSE x \in loc[p].cap : TRUE
       IN snapshots' = save_snapshot(
                          [twin_id |-> loc[p].id, class_name |-> c.class_name,
                           properties |-> c.properties, parent_id |-> c.parent_id,
                           event_version |-> loc[p].sver, timestamp |-> 0])
    /\ LET l == [loc[p] EXCEPT !.cap = {}, !.sver = 0, !.h = 0, !.loaded = FALSE]
       IN loc' = [loc EXCEPT ![p] = IF l.op = "evict_inactive"
                                    THEN [l EXCEPT !.pc = "ev_remove"] ELSE Done(l)]
    /\ inst' = Collect(inst, active_twins, loc')
    /\ UNCHANGED <<sledVars, events, twin_events, version_counter, history, active_twins,
                   snapshot_on_eviction, uuid_counter, hypothetical_ids, last_evicted>>

SnapSaveAborts(p) ==
    /\ loc[p].pc = "sn_save"
    /\ loc' = [loc EXCEPT ![p] = IdleLoc]
    /\ inst' = Collect(inst, active_twins, loc')
    /\ UNCHANGED <<sledVars, storeVars, active_twins, snapshot_on_eviction, uuid_counter,
                   hypothetical_ids, last_evicted>>

(* SnapshotStore::save_snapshot returns Err (a store given to              *)
(* Runtime::with_stores can fail: SledEventStore::save_snapshot propagates *)
(* the errors of encoding, insert and flush).  snapshot_twin returns the   *)
(* error; evict_inactive drops it with `.ok()` and goes on to the remove.  *)
(* The task's err records that a snapshot of this sweep failed.            *)
SnapSaveFails(p) ==
    /\ loc[p].pc = "sn_save"
    /\ LET l == [loc[p] EXCEPT !.cap = {}, !.sver = 0, !.h = 0, !.loaded = FALSE]
       IN loc' = [loc EXCEPT ![p] = IF l.op = "evict_inactive"
                                    THEN [l EXCEPT !.pc = "ev_remove",
                                                   !.err = "SnapshotFailed"]
                                    ELSE Failed(l, "SnapshotFailed")]
    /\ inst' = Collect(inst, active_twins, loc')
    /\ UNCHANGED <<sledVars, storeVars, active_twins, snapshot_on_eviction, uuid_counter,
                   hypothetical_ids, last_evicted>>

(* MemoryEventStore::cleanup_old_snapshots(before): removes every snapshot  *)
(* with timestamp < before; `oldest` is how many snapshots are that old.    *)
CallCleanupOldSnapshots(p, oldest) ==
    /\ CanCall(p)
    /\ oldest \in 1..Cardinality(DOMAIN snapshots)
    /\ snapshots' =
          [x \in {y \in DOMAIN snapshots : snapshots[y].timestamp > oldest} |->
              [snapshots[x] EXCEPT !.timestamp = @ - oldest]]
    /\ loc' = [loc EXCEPT ![p] = IdleLoc]
    /\ inst' = Collect(inst, active_twins, loc')
    /\ UNCHANGED <<sledVars, events, twin_events, version_counter, history, active_twins,
                   snapshot_on_eviction, uuid_counter, hypothetical_ids, last_evicted>>

(* the snapshots callers of the store's own interface save                  *)
(* (tests/event_store_tests.rs: test_snapshot_store)                        *)
SnapshotIds == {1, 2}

StoreSnapshots ==
    {[twin_id |-> id, class_name |-> "Sensor", properties |-> props, parent_id |-> {},
      event_version |-> v, timestamp |-> 0] :
        id \in SnapshotIds,
        props \in {EmptyMap, MapInsert(EmptyMap, "temperature", Float(20))},
        v \in {1, 10}}

(* store.save_snapshot(snapshot); the task remembers what it saved *)
CallSaveSnapshot(p, snapshot) ==
    /\ CanCall(p)
    /\ snapshots' = save_snapshot(snapshot)
    /\ loc' = [loc EXCEPT ![p] =
                 [IdleLoc EXCEPT !.pc = "done", !.op = "save_snapshot", !.ok = TRUE,
                                 !.id = snapshot.twin_id, !.snap = {snapshot}]]
    /\ inst' = Collect(inst, active_twins, loc')
    /\ UNCHANGED <<sledVars, events, twin_events, version_counter, history, active_twins,
                   snapshot_on_eviction, uuid_counter, hypothetical_ids, last_evicted>>

(* store.get_snapshot(twin_id): the task keeps the result *)
CallGetSnapshot(p, twin_id) ==
    /\ CanCall(p)
    /\ loc' = [loc EXCEPT ![p] =
                 [IdleLoc EXCEPT !.pc = "done", !.op = "get_snapshot", !.ok = TRUE,
                                 !.id = twin_id, !.snap = get_snapshot(twin_id)]]
    /\ loc' # loc
    /\ inst' = Collect(inst, active_twins, loc')
    /\ UNCHANGED <<sledVars, storeVars, active_twins, snapshot_on_eviction, uuid_counter,
                   hypothetical_ids, last_evicted>>

(* the sweep's next victim: snapshot it first if configured *)
EvictGoTo(l, rest) ==
    IF rest = {} THEN {Done(l)}
    ELSE {[l EXCEPT !.to_evict = rest, !.id = next, !.loaded = FALSE,
                    !.pc = IF snapshot_on_eviction THEN "ev_snap" ELSE "ev_remove"]
            : next \in rest}

(* Runtime::evict_inactive: the scan collects every entry idle for longer   *)
(* than eviction_timeout (the map's iteration order is arbitrary)           *)
CallEvictInactive(p) ==
    /\ CanCall(p)
    /\ LET to_evict == {id \in DOMAIN active_twins : inst[active_twins[id]].idle > EvictionTimeout}
       IN \E l \in EvictGoTo([IdleLoc EXCEPT !.op = "evict_inactive"], to_evict) :
             loc' = [loc EXCEPT ![p] = l]
    /\ inst' = Collect(inst, active_twins, loc')
    /\ UNCHANGED <<sledVars, storeVars, active_twins, snapshot_on_eviction, uuid_counter,
                   hypothetical_ids, last_evicted>>

(* ... self.snapshot_twin(twin_id).await.ok() ... *)
EvictSnapshot(p) ==
    /\ loc[p].pc = "ev_snap"
    /\ GetTwinLookup(p, loc[p])
    /\ UNCHANGED <<sledVars, storeVars, active_twins, snapshot_on_eviction, uuid_counter,
                   hypothetical_ids, last_evicted>>

EvictRemoveNothing(p) ==
    /\ loc[p].pc = "ev_remove"
    /\ \E l \in EvictGoTo([loc[p] EXCEPT !.h = 0], loc[p].to_evict \ {loc[p].id}) :
          loc' = [loc EXCEPT ![p] = l]
    /\ inst' = Collect(inst, active_twins, loc')
    /\ UNCHANGED <<sledVars, storeVars, active_twins, snapshot_on_eviction, uuid_counter,
                   hypothetical_ids, last_evicted>>

(* ... self.active_twins.remove(&twin_id) *)
EvictRemove(p) ==
    /\ loc[p].pc = "ev_remove"
    /\ active_twins' = MapRemove(active_twins, loc[p].id)
    /\ \E l \in EvictGoTo([loc[p] EXCEPT !.h = 0], loc[p].to_evict \ {loc[p].id}) :
          loc' = [loc EXCEPT ![p] = l]
    /\ inst' = Collect(inst, active_twins', loc')
    /\ last_evicted' =
          IF Resident(loc[p].id) /\ loc[p].id \in DOMAIN snapshots
          THEN MapInsert(last_evicted, loc[p].id, Observable(TwinOf(loc[p].id)))
          ELSE MapRemove(last_evicted, loc[p].id)
    /\ UNCHANGED <<sledVars, storeVars, snapshot_on_eviction, uuid_counter, hypothetical_ids>>

(* Runtime::stats: active_twins.len() and event_store.get_latest_version() *)
CallStats(p) ==
    /\ CanCall(p)
    /\ loc' = [loc EXCEPT ![p] =
                 Done([IdleLoc EXCEPT !.op = "stats",
                         !.stats = {[active_twins |-> Cardinality(DOMAIN active_twins),
                                     total_events |-> get_latest_version]}])]
    /\ loc' # loc
    /\ inst' = Collect(inst, active_twins, loc')
    /\ UNCHANGED <<sledVars, storeVars, active_twins, snapshot_on_eviction, uuid_counter,
                   hypothetical_ids, last_evicted>>

(* messages a caller sends to a twin through the handle get_twin returned *)
HandleMessages ==
    {SetProperty("temperature", Float(40)),
     UpdateProperties(<<<<"temperature", Float(20)>>>>),
     SendMsg("checkAlert")}

HoldsHandle(p) ==
    loc[p].pc = "done" /\ loc[p].op = "get_twin" /\ loc[p].ok /\ loc[p].h \in Slots

(* active.twin.write().await.send(&message) *)
HandleSend(p, m) ==
    /\ HoldsHandle(p)
    /\ inst' = [inst EXCEPT ![loc[p].h].twin = TwinSend(@, m).twin]
    /\ inst' # inst
    /\ UNCHANGED <<sledVars, storeVars, active_twins, snapshot_on_eviction, uuid_counter, loc,
                   hypothetical_ids, last_evicted>>

(* active.twin.write().await.send(&Message::Destroy): the explicit request  *)
(* to destroy the twin; the caller keeps the result and drops the handle    *)
SendDestroy(p) ==
    /\ HoldsHandle(p)
    /\ LET sent == TwinSend(inst[loc[p].h].twin, Destroy)
       IN /\ loc' = [loc EXCEPT ![p] =
                       [IdleLoc EXCEPT !.pc = "done", !.op = "destroy", !.id = loc[p].id,
                                       !.ok = sent.ok,
                                       !.err = IF sent.ok THEN "none" ELSE "Unhandled"]]
          /\ inst' = Collect([inst EXCEPT ![loc[p].h].twin = sent.twin], active_twins, loc')
    /\ UNCHANGED <<sledVars, storeVars, active_twins, snapshot_on_eviction, uuid_counter,
                   hypothetical_ids, last_evicted>>

(* what Utc::now() may return *)
ClockReadings == {0, 1, 2}

(* the messages Twin::send matches no form or selector for *)
UnknownMessages == {SendMsg("unknownMessage"), Initialize, Destroy}

(* let mut twin = Twin::new("Sensor") (tests/twin_tests.rs) *)
LocalTwinNew(p, now) ==
    /\ CanCall(p)
    /\ loc' = [loc EXCEPT ![p] =
                 [IdleLoc EXCEPT !.pc = "done", !.op = "twin", !.ok = TRUE,
                                 !.tw = {TwinStateNew(GeneratedId, "Sensor", now)}]]
    /\ loc' # loc
    /\ inst' = Collect(inst, active_twins, loc')
    /\ UNCHANGED <<sledVars, storeVars, active_twins, snapshot_on_eviction, uuid_counter,
                   hypothetical_ids, last_evicted>>

(* twin.send(&message) on the task's own twin; the clock does not go back *)
LocalSend(p, m, now) ==
    /\ loc[p].pc = "done" /\ loc[p].op = "twin"
    /\ \E twin \in loc[p].tw :
          /\ now >= twin.updated_at
          /\ LET sent == send(twin, m, now)
             IN loc' = [loc EXCEPT ![p].tw = {sent.twin}, ![p].ok = sent.ok,
                                   ![p].err = IF sent.ok THEN "none" ELSE "Unhandled"]
    /\ loc' # loc
    /\ UNCHANGED <<sledVars, storeVars, active_twins, inst, snapshot_on_eviction, uuid_counter,
                   hypothetical_ids, last_evicted>>

(* the task owns a twin of its own *)
OwnsTwin(p) ==
    loc[p].pc = "done" /\ loc[p].op \in {"twin", "clone_twin", "clone_hypothetical"}

(* TwinId::new() calls of the clones are counted up to MaxClones *)
MaxClones == 2

(* let cloned = original.clone_twin(): p's twin is cloned, q gets the clone *)
LocalCloneTwin(p, q, now) ==
    /\ OwnsTwin(p) /\ q # p /\ CanCall(q)
    /\ uuid_counter < MaxClones
    /\ uuid_counter' = uuid_counter + 1
    /\ \E twin \in loc[p].tw :
          loc' = [loc EXCEPT ![q] =
                    [IdleLoc EXCEPT !.pc = "done", !.op = "clone_twin", !.ok = TRUE,
                                    !.tw = {clone_twin(twin, uuid_counter', now)}]]
    /\ inst' = Collect(inst, active_twins, loc')
    /\ UNCHANGED <<sledVars, storeVars, active_twins, snapshot_on_eviction,
                   hypothetical_ids, last_evicted>>

(* let scenario = original.clone_hypothetical() *)
LocalCloneHypothetical(p, q, now, later) ==
    /\ OwnsTwin(p) /\ q # p /\ CanCall(q)
    /\ later >= now
    /\ uuid_counter < MaxClones
    /\ uuid_counter' = uuid_counter + 1
    /\ \E twin \in loc[p].tw :
          loc' = [loc EXCEPT ![q] =
                    [IdleLoc EXCEPT !.pc = "done", !.op = "clone_hypothetical", !.ok = TRUE,
                                    !.tw = {clone_hypothetical(twin, uuid_counter', now, later)}]]
    /\ inst' = Collect(inst, active_twins, loc')
    /\ UNCHANGED <<sledVars, storeVars, active_twins, snapshot_on_eviction,
                   hypothetical_ids, last_evicted>>

(* twin.set_simulation_time(time) on the task's own twin *)
LocalSetSimulationTime(p, time) ==
    /\ OwnsTwin(p)
    /\ \E twin \in loc[p].tw :
          LET set == set_simulation_time(twin, time)
          IN loc' = [loc EXCEPT ![p].tw = {set.twin}, ![p].ok = set.ok,
                                ![p].err = IF set.ok THEN "none" ELSE "NotHypothetical"]
    /\ loc' # loc
    /\ UNCHANGED <<sledVars, storeVars, active_twins, inst, snapshot_on_eviction, uuid_counter,
                   hypothetical_ids, last_evicted>>

(* original.send(&msg!(temperature: ...)) on a twin the task owns *)
OwnerSend(p, m, now) ==
    /\ OwnsTwin(p)
    /\ \E twin \in loc[p].tw :
          /\ now >= twin.updated_at
          /\ LET sent == send(twin, m, now)
             IN loc' = [loc EXCEPT ![p].tw = {sent.twin}, ![p].ok = sent.ok,
                                   ![p].err = IF sent.ok THEN "none" ELSE "Unhandled"]
    /\ loc' # loc
    /\ UNCHANGED <<sledVars, storeVars, active_twins, inst, snapshot_on_eviction, uuid_counter,
                   hypothetical_ids, last_evicted>>

----------------------------------------------------------------------------
Init ==
    /\ events = EmptyMap
    /\ twin_events = EmptyMap
    /\ snapshots = EmptyMap
    /\ version_counter = 0
    /\ active_twins = EmptyMap
    /\ inst = [s \in Slots |-> NoInst]
    /\ snapshot_on_eviction \in BOOLEAN
    /\ uuid_counter = 0
    /\ loc = [p \in Procs |-> IdleLoc]
    /\ history = <<>>
    /\ hypothetical_ids = {}
    /\ last_evicted = EmptyMap
    /\ sled_events = EmptyMap
    /\ sled_twin_events = EmptyMap
    /\ sled_version_counter = 0
    /\ sled_history = <<>>

(* time passing between the calls of a single caller *)
QuietTick == (\A p \in Procs : CanCall(p)) /\ Tick

(* the steps inside append *)
AppendSteps(p) ==
    \/ AppendFetchAdd(p)
    \/ AppendInsertEvent(p)
    \/ AppendIndex(p)

(* the steps inside load_twin *)
LoadSteps(p) ==
    \/ LoadGetSnapshot(p)
    \/ LoadGetEvents(p)
    \/ LoadInsert(p)

(* the steps inside snapshot_twin *)
SnapSteps(p) ==
    \/ SnapCapture(p)
    \/ SnapVersion(p)
    \/ SnapSave(p)

(* Concurrent appends on one store *)
StoreNext ==
    \E p \in Procs :
        \/ \E event \in StoreEvents : CallAppend(p, event)
        \/ AppendSteps(p)

SpecStore == Init /\ [][StoreNext]_vars

(* the steps inside SledEventStore::append *)
SledAppendSteps(p) ==
    \/ SledFetchAdd(p)
    \/ SledInsertEvent(p)
    \/ SledIndexGet(p)
    \/ SledIndexInsert(p)

(* Concurrent appends on one sled store *)
SledNext ==
    \E p \in Procs :
        \/ \E event \in StoreEvents : CallSledAppend(p, event)
        \/ SledAppendSteps(p)

SpecSled == Init /\ [][SledNext]_vars

(* Concurrent appends on a sled store that is closed, or crashes, and is    *)
(* opened again                                                            *)
SledRestartNext ==
    \/ SledNext
    \/ SledReopen

SpecSledRestart == Init /\ [][SledRestartNext]_vars

(* Concurrent appends on one store of either kind: the tasks share the     *)
(* store that was opened, in-memory or sled                                *)
MemoryStoreUnused == version_counter = 0 /\ \A p \in Procs : loc[p].op # "append"

SledStoreUnused == sled_version_counter = 0 /\ \A p \in Procs : loc[p].op # "sled_append"

EitherStoreNext ==
    \/ SledStoreUnused /\ StoreNext
    \/ MemoryStoreUnused /\ SledNext

SpecEitherStore == Init /\ [][EitherStoreNext]_vars

(* One caller at a time: persistent twins, telemetry, snapshots, eviction *)
SeqNext ==
    \/ QuietTick
    \/ \E p \in {Main} :
        \/ \E c \in Classes : CallCreateTwin(p, c)
        \/ CreateInsert(p)
        \/ \E id \in KnownIds : CallGetTwin(p, id)
        \/ \E id \in KnownIds, data \in TelemetryInputs : CallUpdateTelemetry(p, id, data)
        \/ UpdateApply(p)
        \/ \E id \in KnownIds : CallSnapshotTwin(p, id)
        \/ CallEvictInactive(p)
        \/ EvictSnapshot(p)
        \/ EvictRemove(p)
        \/ AppendSteps(p)
        \/ LoadSteps(p)
        \/ SnapSteps(p)

SpecSeq == Init /\ [][SeqNext]_vars

(* One caller at a time, the whole programmatic surface: also hypothetical *)
(* twins and messages sent through a handle                                *)
Next ==
    \/ QuietTick
    \/ \E p \in {Main} :
        \/ \E c \in Classes : CallCreateTwin(p, c)
        \/ CreateInsert(p)
        \/ \E c \in Classes : CallCreateHypotheticalTwin(p, c)
        \/ \E id \in KnownIds : CallGetTwin(p, id)
        \/ \E m \in HandleMessages : HandleSend(p, m)
        \/ \E id \in KnownIds, data \in TelemetryInputs : CallUpdateTelemetry(p, id, data)
        \/ UpdateApply(p)
        \/ \E id \in KnownIds : CallSnapshotTwin(p, id)
        \/ CallEvictInactive(p)
        \/ EvictSnapshot(p)
        \/ EvictRemove(p)
        \/ AppendSteps(p)
        \/ LoadSteps(p)
        \/ SnapSteps(p)

Spec == Init /\ [][Next]_vars

(* Tasks updating twins at once: create_twin and update_telemetry *)
TelemetryNext ==
    \E p \in Procs :
        \/ \E c \in Classes : CallCreateTwin(p, c)
        \/ CreateInsert(p)
        \/ \E id \in KnownIds, data \in TelemetryInputs : CallUpdateTelemetry(p, id, data)
        \/ UpdateApply(p)
        \/ AppendSteps(p)

SpecTelemetry == Init /\ [][TelemetryNext]_vars

(* test_concurrent_access: one twin, and every task calls update_telemetry *)
(* once with a key of its own, `value_i = i`                               *)
WriterData(p) == IF p = Main THEN <<<<"value_0", 0>>>> ELSE <<<<"value_1", 1>>>>

WritersNext ==
    \/ \E c \in Classes : CreateTwin(Main, c, 1)
    \/ \E p \in Procs :
        \/ CreateInsert(p)
        \/ \E id \in KnownIds :
              /\ \A v \in DOMAIN events : events[v].type = "TelemetryReceived" =>
                                               events[v].data # WriterData(p)
              /\ CallUpdateTelemetry(p, id, WriterData(p))
        \/ UpdateApply(p)
        \/ AppendSteps(p)

SpecWriters == Init /\ [][WritersNext]_vars

(* Tasks updating twins while others read the statistics *)
StatsNext ==
    \/ TelemetryNext
    \/ \E p \in Procs : CallStats(p)

SpecStats == Init /\ [][StatsNext]_vars

(* Tasks reading twins while the sweep runs: create_twin, get_twin and *)
(* evict_inactive at once, with time passing at any point              *)
EvictNext ==
    \/ Tick
    \/ \E p \in Procs :
        \/ \E c \in Classes : CallCreateTwin(p, c)
        \/ CreateInsert(p)
        \/ \E id \in KnownIds : CallGetTwin(p, id)
        \/ CallEvictInactive(p)
        \/ EvictSnapshot(p)
        \/ EvictRemove(p)
        \/ AppendSteps(p)
        \/ LoadSteps(p)
        \/ SnapSteps(p)

SpecEvict == Init /\ [][EvictNext]_vars

(* One caller at a time, every operation that writes to the store:         *)
(* create_twin, update_telemetry, snapshot_twin, evict_inactive (which     *)
(* snapshots, and so reloads what it finds evicted) and                    *)
(* cleanup_old_snapshots                                                   *)
MaintenanceNext ==
    \/ QuietTick
    \/ \E p \in {Main} :
        \/ \E c \in Classes : CallCreateTwin(p, c)
        \/ CreateInsert(p)
        \/ \E id \in KnownIds, data \in TelemetryInputs : CallUpdateTelemetry(p, id, data)
        \/ UpdateApply(p)
        \/ \E id \in KnownIds : CallSnapshotTwin(p, id)
        \/ \E oldest \in 1..FleetSize : CallCleanupOldSnapshots(p, oldest)
        \/ CallEvictInactive(p)
        \/ EvictSnapshot(p)
        \/ EvictRemove(p)
        \/ AppendSteps(p)
        \/ LoadSteps(p)
        \/ SnapSteps(p)

SpecMaintenance == Init /\ [][MaintenanceNext]_vars

(* telemetry lists that name a key twice, and lists of one pair *)
DuplicateKeyInputs ==
    {<<<<"temperature", d[1]>>, <<"humidity", d[1]>>, <<"temperature", d[2]>>>> :
        d \in {e \in Floats \X Floats : e[1] # e[2]}}

SequenceInputs == DuplicateKeyInputs \cup TelemetryInputs

SequenceKeys == UNION {{data[i][1] : i \in DOMAIN data} : data \in SequenceInputs}

(* One caller, update_telemetry call after call (test_event_sourcing), with *)
(* get_twin to read the twin and evict_inactive between the calls           *)
SequenceNext ==
    \/ QuietTick
    \/ \E p \in {Main} :
        \/ \E c \in Classes : CallCreateTwin(p, c)
        \/ CreateInsert(p)
        \/ \E id \in KnownIds : CallGetTwin(p, id)
        \/ \E id \in KnownIds, data \in SequenceInputs : CallUpdateTelemetry(p, id, data)
        \/ UpdateApply(p)
        \/ CallEvictInactive(p)
        \/ EvictSnapshot(p)
        \/ EvictRemove(p)
        \/ AppendSteps(p)
        \/ LoadSteps(p)
        \/ SnapSteps(p)

SpecSequence == Init /\ [][SequenceNext]_vars

(* test_twin_not_loaded_on_telemetry: one caller; twins of either kind are *)
(* created and evicted, update_telemetry is called on ids that are not     *)
(* resident, get_twin reads them                                           *)
LazyNext ==
    \/ QuietTick
    \/ \E p \in {Main} :
        \/ \E c \in Classes : CallCreateTwin(p, c)
        \/ \E c \in Classes : CallCreateHypotheticalTwin(p, c)
        \/ CreateInsert(p)
        \/ \E id \in KnownIds : CallGetTwin(p, id)
        \/ \E id \in KnownIds \ DOMAIN active_twins, data \in TelemetryInputs :
               CallUpdateTelemetry(p, id, data)
        \/ UpdateApply(p)
        \/ CallEvictInactive(p)
        \/ EvictSnapshot(p)
        \/ EvictRemove(p)
        \/ AppendSteps(p)
        \/ LoadSteps(p)
        \/ SnapSteps(p)

SpecLazy == Init /\ [][LazyNext]_vars

(* ids a caller can pass: those it was given and one of no twin *)
CallerIds == KnownIds \cup {UnknownId}

(* One caller who also names an id of no twin (test_error_handling):       *)
(* create_twin, evict_inactive, get_twin on any id, update_telemetry on    *)
(* the id of no twin                                                       *)
ErrorsNext ==
    \/ QuietTick
    \/ \E p \in {Main} :
        \/ \E c \in Classes : CallCreateTwin(p, c)
        \/ CreateInsert(p)
        \/ \E id \in CallerIds : CallGetTwin(p, id)
        \/ \E data \in TelemetryInputs : CallUpdateTelemetry(p, UnknownId, data)
        \/ UpdateApply(p)
        \/ CallEvictInactive(p)
        \/ EvictSnapshot(p)
        \/ EvictRemove(p)
        \/ AppendSteps(p)
        \/ LoadSteps(p)
        \/ SnapSteps(p)

SpecErrors == Init /\ [][ErrorsNext]_vars

(* One caller who destroys twins: create_twin, get_twin and Destroy sent    *)
(* through the handle, a Destroyed event appended through the store's       *)
(* interface, update_telemetry, evict_inactive                              *)
DestroyNext ==
    \/ QuietTick
    \/ \E p \in {Main} :
        \/ \E c \in Classes : CallCreateTwin(p, c)
        \/ CreateInsert(p)
        \/ \E id \in KnownIds : CallGetTwin(p, id)
        \/ SendDestroy(p)
        \/ \E id \in KnownIds : CallAppend(p, DestroyedEvent(id))
        \/ \E id \in KnownIds, data \in TelemetryInputs : CallUpdateTelemetry(p, id, data)
        \/ UpdateApply(p)
        \/ CallEvictInactive(p)
        \/ EvictSnapshot(p)
        \/ EvictRemove(p)
        \/ AppendSteps(p)
        \/ LoadSteps(p)
        \/ SnapSteps(p)

SpecDestroy == Init /\ [][DestroyNext]_vars

(* One caller filling the registry: create_twin, create_hypothetical_twin,  *)
(* get_twin (which loads what evict_inactive removed)                       *)
CapacityNext ==
    \/ QuietTick
    \/ \E p \in {Main} :
        \/ \E c \in Classes : CreateTwin(p, c, FleetSize)
        \/ CreateInsert(p)
        \/ \E c \in Classes : CallCreateHypotheticalTwin(p, c)
        \/ \E id \in KnownIds : CallGetTwin(p, id)
        \/ CallEvictInactive(p)
        \/ EvictSnapshot(p)
        \/ EvictRemove(p)
        \/ AppendSteps(p)
        \/ LoadSteps(p)
        \/ SnapSteps(p)

SpecCapacity == Init /\ [][CapacityNext]_vars

(* The task start_eviction_task spawns: loop { interval.tick().await;       *)
(* evict_inactive().await }                                                 *)
EvictionTask == "t2"

(* the steps of the spawned task *)
EvictionTaskStep ==
    \/ CallEvictInactive(EvictionTask)
    \/ EvictSnapshot(EvictionTask)
    \/ EvictRemove(EvictionTask)
    \/ LoadSteps(EvictionTask)
    \/ SnapSteps(EvictionTask)

(* A caller creating persistent twins and reading them with get_twin while *)
(* the spawned task sweeps and time passes                                 *)
EvictionTaskNext ==
    \/ Tick
    \/ EvictionTaskStep
    \/ \E p \in {Main} :
        \/ \E c \in Classes : CallCreateTwin(p, c)
        \/ CreateInsert(p)
        \/ \E id \in KnownIds : CallGetTwin(p, id)
        \/ AppendSteps(p)
        \/ LoadSteps(p)

(* time passes, and the runtime schedules the spawned task *)
SpecEvictionTask ==
    Init /\ [][EvictionTaskNext]_vars /\ WF_vars(Tick) /\ WF_vars(EvictionTaskStep)

(* A caller creating persistent twins while the spawned task sweeps and    *)
(* the snapshot store may fail; time passes between the calls              *)
SweepNext ==
    \/ QuietTick
    \/ \E p \in {Main} :
        \/ \E c \in Classes : CreateTwin(p, c, FleetSize)
        \/ CreateInsert(p)
        \/ AppendSteps(p)
    \/ \E p \in {EvictionTask} :
        \/ CallEvictInactive(p)
        \/ EvictSnapshot(p)
        \/ EvictRemove(p)
        \/ SnapSteps(p)
        \/ SnapSaveFails(p)

SpecSweep == Init /\ [][SweepNext]_vars

(* Callers of the snapshot store's own interface: save_snapshot,           *)
(* get_snapshot, cleanup_old_snapshots                                     *)
SnapshotStoreNext ==
    \E p \in Procs :
        \/ \E snapshot \in StoreSnapshots : CallSaveSnapshot(p, snapshot)
        \/ \E twin_id \in SnapshotIds : CallGetSnapshot(p, twin_id)
        \/ \E oldest \in SnapshotIds : CallCleanupOldSnapshots(p, oldest)

SpecSnapshotStore == Init /\ [][SnapshotStoreNext]_vars

(* Tasks sending messages to twins of their own *)
TwinNext ==
    \E p \in Procs, now \in ClockReadings :
        \/ LocalTwinNew(p, now)
        \/ \E m \in HandleMessages \cup UnknownMessages : LocalSend(p, m, now)

SpecTwin == Init /\ [][TwinNext]_vars

(* Tasks cloning twins of their own (tests/twin_tests.rs: test_twin_cloning;  *)
(* tests/fleet_prediction_poc.rs)                                           *)
CloneTimes == {0, 1}

CloneNext ==
    \E p \in Procs, now \in CloneTimes :
        \/ LocalTwinNew(p, now)
        \/ OwnerSend(p, SetProperty("temperature", Float(20)), now)
        \/ \E q \in Procs : LocalCloneTwin(p, q, now)
        \/ \E q \in Procs, later \in CloneTimes : LocalCloneHypothetical(p, q, now, later)
        \/ LocalSetSimulationTime(p, now)

SpecClone == Init /\ [][CloneNext]_vars

(* One caller writes telemetry, takes snapshots, evicts and loads twins     *)
(* again and again                                                         *)
ReplayNext ==
    \/ QuietTick
    \/ \E p \in {Main} :
        \/ CallCreateTwin(p, "Sensor")
        \/ CreateInsert(p)
        \/ \E id \in KnownIds, data \in TelemetryInputs : CallUpdateTelemetry(p, id, data)
        \/ UpdateApply(p)
        \/ \E id \in KnownIds : CallSnapshotTwin(p, id)
        \/ CallEvictInactive(p)
        \/ EvictSnapshot(p)
        \/ EvictRemove(p)
        \/ AppendSteps(p)
        \/ SnapSteps(p)
        \/ \E id \in KnownIds : CallGetTwin(p, id)
        \/ LoadSteps(p)

SpecReplay == Init /\ [][ReplayNext]_vars

(* One twin; one task takes snapshots of it while the other sends telemetry *)
SnapshotRaceNext ==
    \/ \E c \in Classes : CreateTwin(Main, c, 1)
    \/ CreateInsert(Main)
    \/ \E id \in KnownIds : CallSnapshotTwin(Main, id)
    \/ SnapSteps(Main)
    \/ AppendSteps(Main)
    \/ \E p \in Procs \ {Main} :
        \/ \E id \in KnownIds, data \in TelemetryInputs : CallUpdateTelemetry(p, id, data)
        \/ UpdateApply(p)
        \/ AppendSteps(p)

SpecSnapshotRace == Init /\ [][SnapshotRaceNext]_vars

(* One task creates twins, evicts them while nothing else runs and loads    *)
(* them again with get_twin; the other sends telemetry, also during a load  *)
LoadRaceNext ==
    \/ QuietTick
    \/ CallCreateTwin(Main, "Sensor")
    \/ CreateInsert(Main)
    \/ (\A q \in Procs : CanCall(q)) /\ CallEvictInactive(Main)
    \/ EvictSnapshot(Main)
    \/ EvictRemove(Main)
    \/ SnapSteps(Main)
    \/ AppendSteps(Main)
    \/ \E id \in KnownIds : CallGetTwin(Main, id)
    \/ LoadSteps(Main)
    \/ \E p \in Procs \ {Main} :
        \/ /\ loc[Main].op # "evict_inactive"
           /\ \E id \in KnownIds, data \in TelemetryInputs : CallUpdateTelemetry(p, id, data)
        \/ UpdateApply(p)
        \/ AppendSteps(p)

SpecLoadRace == Init /\ [][LoadRaceNext]_vars

(* One caller on a store whose append can fail during update_telemetry *)
AppendFailureNext ==
    \E p \in {Main} :
        \/ \E c \in Classes : CallCreateTwin(p, c)
        \/ CreateInsert(p)
        \/ \E id \in KnownIds, data \in TelemetryInputs : CallUpdateTelemetry(p, id, data)
        \/ UpdateApply(p)
        \/ AppendSteps(p)
        \/ loc[p].op = "update_telemetry" /\ AppendFailsAtInsert(p)
        \/ loc[p].op = "update_telemetry" /\ AppendFailsAtIndex(p)
        \/ loc[p].op = "update_telemetry" /\ AppendFailsAtFlush(p)

SpecAppendFailure == Init /\ [][AppendFailureNext]_vars

(* One caller whose update_telemetry calls may be cancelled after the append *)
CancelNext ==
    \/ SeqNext
    \/ CancelUpdateTelemetry(Main)

SpecCancel == Init /\ [][CancelNext]_vars

(* One caller, several twins: create_twin, update_telemetry, snapshot_twin, *)
(* cleanup_old_snapshots                                                    *)
FleetNext ==
    \E p \in {Main} :
        \/ \E oldest \in 1..FleetSize : CallCleanupOldSnapshots(p, oldest)
        \/ \E c \in Classes : CreateTwin(p, c, FleetSize)
        \/ CreateInsert(p)
        \/ \E id \in KnownIds, data \in TelemetryInputs : CallUpdateTelemetry(p, id, data)
        \/ UpdateApply(p)
        \/ \E id \in KnownIds : CallSnapshotTwin(p, id)
        \/ AppendSteps(p)
        \/ SnapSteps(p)

SpecFleet == Init /\ [][FleetNext]_vars

----------------------------------------------------------------------------
(* Claims about the store under concurrent appends (SpecStore) *)

AppendReturned(p) == loc[p].pc = "done" /\ loc[p].op = "append" /\ loc[p].ok

(* versions assigned to appends that have not returned yet *)
InFlightVersions == {loc[p].ver : p \in {q \in Procs : loc[q].pc \in {"ap_events", "ap_index"}}}

(* C3 as stated: the first append to return returns 1, every append returns  *)
(* a version greater than all versions returned before it completed, and     *)
(* get_latest_version is larger after an append than before it.              *)
C3_Original ==
    /\ history # <<>> => history[1] = 1
    /\ \A i, j \in 1..Len(history) : i < j => history[i] < history[j]
    /\ \A p \in Procs : AppendReturned(p) => get_latest_version > loc[p].pre_ctr

(* C3 amended: the versions assigned are exactly 1..get_latest_version, none *)
(* is assigned or returned twice, every append returns a version greater     *)
(* than all versions returned before it was invoked, get_latest_version is   *)
(* larger after an append than before it and never decreases.                *)
C3_VersionsMonotonic ==
    /\ [](/\ \A i, j \in 1..Len(history) : i # j => history[i] # history[j]
          /\ Range(history) \cup InFlightVersions = 1..version_counter
          /\ Len(history) + Cardinality({q \in Procs : loc[q].pc \in {"ap_events", "ap_index"}})
                = version_counter
          /\ \A p \in Procs : AppendReturned(p) =>
                /\ loc[p].ver > loc[p].pre_ret
                /\ get_latest_version > loc[p].pre_ctr)
    /\ [][version_counter' >= version_counter]_vars

(* an append overtaken by a later one has returned after it *)
C3_Witness ==
    /\ Len(history) >= 2
    /\ history[1] > history[2]
    /\ \E p \in Procs : AppendReturned(p) /\ loc[p].ver = history[2]

----------------------------------------------------------------------------
(* Claims about the runtime *)

Quiescent == \A p \in Procs : CanCall(p)

(* The fold of the events stored for id, in version order: the first must   *)
(* be Created and gives the class, the others are applied in turn.          *)
Fold(id) ==
    LET evs == get_events(id, 0)
    IN IF evs = <<>> \/ evs[1][2].type # "Created" THEN [ok |-> FALSE]
       ELSE [ok |-> TRUE, class_name |-> evs[1][2].class_name,
             properties |-> Replay(TwinNew(id, evs[1][2].class_name), evs, 2).properties]

GetTwinReturned(p) == loc[p].pc = "done" /\ loc[p].op = "get_twin"

C2_MemoryEqualsFold ==
    Quiescent =>
        \A id \in DOMAIN active_twins :
            id \notin hypothetical_ids /\ ~TwinOf(id).is_hypothetical =>
                /\ Fold(id).ok
                /\ TwinOf(id).properties = Fold(id).properties

(* C4: no stored event carries the id of a hypothetical twin *)
C4_NoHypotheticalEvents ==
    \A v \in DOMAIN events : events[v].twin_id \notin hypothetical_ids

(* C5: eviction never removes a twin that was accessed less than            *)
(* eviction_timeout ago (taken with snapshot_on_eviction off, where the     *)
(* sweep itself never touches a twin: only other tasks refresh it).         *)
C5_EvictOnlyIdle ==
    [][~snapshot_on_eviction =>
          \A id \in DOMAIN active_twins :
              id \notin DOMAIN active_twins' =>
                  inst[active_twins[id]].idle >= EvictionTimeout]_vars

(* C6: a resident hypothetical twin is never removed from the registry *)
C6_HypotheticalPinned ==
    [][\A id \in DOMAIN active_twins :
          TwinOf(id).is_hypothetical => id \in DOMAIN active_twins']_vars

(* C7: no step of evict_inactive saves a snapshot under the id of a twin    *)
(* made by create_hypothetical_twin, and get_twin never makes such an id    *)
(* resident as a non-hypothetical twin                                      *)
C7_NoHypotheticalSnapshot ==
    [][/\ \A p \in Procs :
              loc[p].op = "evict_inactive" /\ loc[p].id \in hypothetical_ids =>
                  snapshots' = snapshots
       /\ \A id \in hypothetical_ids :
              id \in DOMAIN active_twins' =>
                  inst'[active_twins'[id]].twin.is_hypothetical]_vars

(* the value the stored event with the highest version wrote for key k of id *)
WritersOf(id, k) ==
    {v \in Range(MapGet(twin_events, id, <<>>)) :
        /\ v \in DOMAIN events
        /\ events[v].type = "TelemetryReceived"
        /\ \E i \in DOMAIN events[v].data : events[v].data[i][1] = k}

LastWritten(id, k) ==
    LET data == events[SetMax(WritersOf(id, k))].data
        i == CHOOSE j \in DOMAIN data :
                data[j][1] = k /\ \A n \in DOMAIN data : data[n][1] = k => n <= j
    IN Float(data[i][2])

TelemetryKeys == {data[i][1] : data \in TelemetryInputs, i \in {1}}

(* C8: once the update_telemetry calls on a resident twin have returned, a  *)
(* key they wrote holds the value of the event with the highest version     *)
C8_TelemetryOrdered ==
    Quiescent =>
        \A id \in DOMAIN active_twins : \A k \in TelemetryKeys :
            WritersOf(id, k) # {} =>
                /\ k \in DOMAIN TwinOf(id).properties
                /\ TwinOf(id).properties[k] = LastWritten(id, k)

InLoad(p) == loc[p].pc \in {"ld_snapshot", "ld_events", "ld_insert"}

(* C9: no two tasks are inside load_twin for the same id at once *)
C9_OneReloadPerId ==
    \A p, q \in Procs : p # q /\ InLoad(p) /\ InLoad(q) => loc[p].id # loc[q].id

(* C10: reloading a twin that was evicted with a snapshot in the store       *)
(* yields what get_twin showed at the eviction: id, class name, properties   *)
(* and parent_id                                                             *)
C10_ReloadSameObservable ==
    [][\A p \in Procs :
          loc[p].pc = "ld_insert" /\ loc'[p].pc # "ld_insert"
              /\ loc[p].id \in DOMAIN last_evicted =>
                  Observable(inst'[active_twins'[loc[p].id]].twin) = last_evicted[loc[p].id]]_vars

(* the versions of the events stored for twin id *)
VersionsOf(id) == {v \in DOMAIN events : events[v].twin_id = id}

(* C11: the event_version of every saved snapshot is the version of an      *)
(* event of the snapshot's own twin (or 0)                                  *)
C11_SnapshotVersionOfTwin ==
    \A id \in DOMAIN snapshots :
        snapshots[id].event_version \in VersionsOf(id) \cup {0}

(* C12: a twin that get_twin returns has, for every key written by a stored *)
(* telemetry event of its id, the value of the last such event, also after  *)
(* an update_telemetry was cancelled between its append and its apply       *)
C12_CancelledUpdateVisible ==
    \A p \in Procs :
        GetTwinReturned(p) /\ loc[p].ok =>
            \A k \in TelemetryKeys :
                WritersOf(loc[p].id, k) # {} =>
                    /\ k \in DOMAIN inst[loc[p].h].twin.properties
                    /\ inst[loc[p].h].twin.properties[k] = LastWritten(loc[p].id, k)

----------------------------------------------------------------------------
(* Claims about the two stores' reads *)

(* C13: an append that has returned (v, event) is found by every later      *)
(* get_events of the event's twin with after_version < v, in the in-memory  *)
(* store and in the sled store                                              *)
C13_AppendVisible ==
    /\ \A i \in DOMAIN history :
          LET v == history[i]
          IN /\ v \in DOMAIN events
             /\ \A a \in 0..(v - 1) :
                   <<v, events[v]>> \in Range(get_events(events[v].twin_id, a))
    /\ \A i \in DOMAIN sled_history :
          LET v == sled_history[i][1]
              event == sled_history[i][2]
          IN \A a \in 0..(v - 1) :
                <<v, event>> \in Range(sled_get_events(event.twin_id, a))

StoreTwinIds == {e.twin_id : e \in StoreEvents}

(* what get_events(twin_id, after_version) may return: events of twin_id   *)
(* with a version above after_version, strictly ascending                  *)
WellOrdered(r, twin_id, after_version) ==
    /\ \A i \in DOMAIN r : r[i][2].twin_id = twin_id /\ r[i][1] > after_version
    /\ \A i, j \in DOMAIN r : i < j => r[i][1] < r[j][1]

(* C14: get_events of either store returns only events of the twin after   *)
(* after_version, in strictly ascending version order                      *)
C14_GetEventsAscending ==
    \A id \in StoreTwinIds : \A a \in 0..MaxVersion :
        /\ WellOrdered(get_events(id, a), id, a)
        /\ WellOrdered(sled_get_events(id, a), id, a)

(* the appends that have been assigned their version *)
HasVersion(p) ==
    \/ loc[p].pc \in {"ap_events", "ap_index", "sl_events", "sl_index_get", "sl_index_put"}
    \/ loc[p].pc = "done" /\ loc[p].op \in {"append", "sled_append"}

(* C15: an append invoked after another append of the same store returned, *)
(* for the same or another twin, is assigned a greater version             *)
C15_HappensBeforeOrder ==
    \A p \in Procs : HasVersion(p) => loc[p].ver > loc[p].pre_ret

(* an append for one twin has returned after being invoked when an append  *)
(* for another twin had returned                                           *)
C15_Witness ==
    \E p \in Procs :
        /\ loc[p].pc = "done" /\ loc[p].op = "sled_append" /\ loc[p].pre_ret > 0
        /\ \E i, j \in DOMAIN sled_history :
              /\ sled_history[i][1] = loc[p].pre_ret
              /\ sled_history[j][1] = loc[p].ver
              /\ sled_history[i][2].twin_id # sled_history[j][2].twin_id

----------------------------------------------------------------------------
(* C16: the event stored under a version is never changed or removed, by    *)
(* appends, snapshots, eviction, loads or cleanup_old_snapshots             *)
C16_EventsAppendOnly ==
    [][\A v \in DOMAIN events :
          v \in DOMAIN events' /\ events'[v] = events[v]]_vars

(* a twin was evicted with a snapshot, its snapshot was cleaned up, and     *)
(* snapshot_twin has reloaded it from its events, of which there are several *)
C16_Witness ==
    /\ snapshot_on_eviction
    /\ loc[Main].pc = "sn_capture" /\ loc[Main].loaded
    /\ snapshots = EmptyMap
    /\ Cardinality(DOMAIN events) >= 2

(* C17: the total_events that stats() returns is at most the number of     *)
(* events stored in the log when stats() reads it                          *)
C17_StatsNotAhead ==
    [][\A p \in Procs :
          loc'[p].op = "stats" /\ loc'[p] # loc[p] =>
              \A st \in loc'[p].stats : st.total_events <= Cardinality(DOMAIN events)]_vars

(* every task's update_telemetry call on twin id has appended its event *)
AllWritten(id) == \A p \in Procs : WritersOf(id, WriterData(p)[1][1]) # {}

(* C18: once the concurrent update_telemetry calls with distinct keys on    *)
(* one resident twin have all returned, the twin holds every key with its   *)
(* value and total_events is the number of calls plus one                   *)
C18_ConcurrentWriters ==
    \A id \in DOMAIN active_twins :
        Quiescent /\ AllWritten(id) =>
            /\ \A p \in Procs :
                  LET k == WriterData(p)[1][1]
                  IN /\ k \in DOMAIN TwinOf(id).properties
                     /\ TwinOf(id).properties[k] = Float(WriterData(p)[1][2])
            /\ get_latest_version = Cardinality(Procs) + 1

(* all calls have returned; they overlapped: the append with the higher    *)
(* version returned before the other one                                   *)
C18_Witness ==
    /\ Quiescent
    /\ \E id \in DOMAIN active_twins :
          /\ AllWritten(id)
          /\ WritersOf(id, WriterData(Main)[1][1]) = {3}
          /\ history = <<1, 3, 2>>

(* C19: after update_telemetry calls made one after the other on a twin,   *)
(* the twin get_twin returns holds, for each key, the last value supplied  *)
(* for it: the last pair naming the key in the last call that names it; a  *)
(* key no call named is absent.                                            *)
C19_LastSuppliedValue ==
    \A p \in Procs :
        GetTwinReturned(p) /\ loc[p].ok =>
            \A k \in SequenceKeys :
                IF WritersOf(loc[p].id, k) = {}
                THEN k \notin DOMAIN inst[loc[p].h].twin.properties
                ELSE /\ k \in DOMAIN inst[loc[p].h].twin.properties
                     /\ inst[loc[p].h].twin.properties[k] = LastWritten(loc[p].id, k)

(* two calls named temperature, the last of them twice with two values, and *)
(* get_twin returned the twin                                               *)
C19_Witness ==
    \E p \in Procs :
        /\ GetTwinReturned(p) /\ loc[p].ok
        /\ Cardinality(WritersOf(loc[p].id, "temperature")) >= 2
        /\ LET data == events[SetMax(WritersOf(loc[p].id, "temperature"))].data
           IN /\ Len(data) = 3
              /\ data[1][2] # data[3][2]
              /\ inst[loc[p].h].twin.properties["temperature"] = Float(data[3][2])
(* get_twin has returned for an id with stored telemetry: it returned a     *)
(* twin, and the twin holds the last value written for each key             *)
ShowsTelemetry(p) ==
    GetTwinReturned(p) /\ (\E k \in TelemetryKeys : WritersOf(loc[p].id, k) # {}) =>
        /\ loc[p].ok
        /\ \A k \in TelemetryKeys :
               WritersOf(loc[p].id, k) # {} =>
                   /\ k \in DOMAIN inst[loc[p].h].twin.properties
                   /\ inst[loc[p].h].twin.properties[k] = LastWritten(loc[p].id, k)

(* C20: update_telemetry on the id of a twin that is not resident appends   *)
(* exactly one TelemetryReceived event and changes neither the registry nor *)
(* any loaded twin; a get_twin(id) that follows returns the twin with the   *)
(* new value.                                                               *)
C20_LazyTelemetry ==
    [][/\ \A p \in Procs :
              loc[p].pc = "ut_apply" /\ loc'[p].pc # "ut_apply" /\ ~Resident(loc[p].id) =>
                  /\ active_twins' = active_twins
                  /\ inst' = inst
                  /\ DOMAIN events = 1..(loc[p].pre_ctr + 1)
                  /\ events[loc[p].pre_ctr + 1] = TelemetryEvent(loc[p].id, loc[p].data)
       /\ \A p \in Procs : ShowsTelemetry(p)']_vars
----------------------------------------------------------------------------
(* Claims about failing loads *)

(* a step that changes neither the registry, nor a resident twin, nor the  *)
(* event log, nor the snapshot store                                       *)
NothingStoredChanges ==
    /\ active_twins' = active_twins
    /\ \A id \in DOMAIN active_twins : inst'[active_twins[id]] = inst[active_twins[id]]
    /\ events' = events
    /\ twin_events' = twin_events
    /\ version_counter' = version_counter
    /\ snapshots' = snapshots

(* task p takes a step of a get_twin call that missed the registry *)
GetTwinMissStep(p) ==
    /\ loc'[p] # loc[p]
    /\ \/ loc'[p].op = "get_twin" /\ loc'[p].pc \in {"ld_snapshot", "ld_events"}
       \/ loc[p].op = "get_twin" /\ loc[p].pc = "ld_events"

(* C21: get_twin(id) for an id with no snapshot and no events fails with   *)
(* the not-found error, and no step of the call changes the registry, the  *)
(* event log or the snapshot store.                                        *)
C21_NotFoundNoEffect ==
    [][\A p \in Procs :
          GetTwinMissStep(p)
          /\ loc'[p].id \notin DOMAIN snapshots /\ get_events(loc'[p].id, 0) = <<>>
          => /\ NothingStoredChanges
             /\ loc[p].pc = "ld_events" =>
                    /\ loc'[p].pc = "done" /\ loc'[p].op = "get_twin"
                    /\ ~loc'[p].ok /\ loc'[p].err = "NotFound"]_vars

(* get_twin failed with not-found while a twin is resident and events and *)
(* a snapshot are stored                                                  *)
C21_Witness ==
    \E p \in Procs :
        /\ GetTwinReturned(p) /\ ~loc[p].ok /\ loc[p].err = "NotFound"
        /\ active_twins # EmptyMap /\ events # EmptyMap /\ snapshots # EmptyMap
(* C22: get_twin for a twin that is not resident, has no snapshot and whose *)
(* first stored event is not Created fails with the corrupt-log error, and  *)
(* no step of the call inserts into the registry.                           *)
C22_CorruptLogNoInsert ==
    [][\A p \in Procs :
          GetTwinMissStep(p)
          /\ loc'[p].id \notin DOMAIN snapshots
          /\ get_events(loc'[p].id, 0) # <<>>
          /\ get_events(loc'[p].id, 0)[1][2].type # "Created"
          => /\ active_twins' = active_twins
             /\ loc[p].pc = "ld_events" =>
                    /\ loc'[p].pc = "done" /\ loc'[p].op = "get_twin"
                    /\ ~loc'[p].ok /\ loc'[p].err = "CorruptLog"]_vars

(* get_twin failed with corrupt-log while another twin is resident *)
C22_Witness ==
    \E p \in Procs :
        /\ GetTwinReturned(p) /\ ~loc[p].ok /\ loc[p].err = "CorruptLog"
        /\ get_events(loc[p].id, 0) # <<>>
        /\ active_twins # EmptyMap
----------------------------------------------------------------------------
(* Claims about destroyed twins *)

(* the log of twin id holds a Destroyed event *)
HasDestroyed(id) == \E v \in VersionsOf(id) : events[v].type = "Destroyed"

(* C23: once the request to destroy a twin has returned, the log holds a   *)
(* Destroyed event of the twin; and no load of an id whose log holds a     *)
(* Destroyed event succeeds.                                               *)
C23_DestroyedNotLoaded ==
    \A p \in Procs :
        /\ loc[p].pc = "done" /\ loc[p].op = "destroy" => HasDestroyed(loc[p].id)
        /\ GetTwinReturned(p) /\ HasDestroyed(loc[p].id) => ~(loc[p].ok /\ loc[p].loaded)
(* C24: update_telemetry for a twin whose log holds a Destroyed event fails *)
(* with the invalid-operation error and appends nothing: no step of such a  *)
(* call is a step of an append, and no TelemetryReceived event of the twin  *)
(* has a higher version than its Destroyed event.                           *)
C24_NoTelemetryAfterDestroyed ==
    [][/\ \A p \in Procs :
              loc'[p] # loc[p] /\ loc'[p].op = "update_telemetry"
              /\ HasDestroyed(loc'[p].id)
              => loc'[p].pc \notin {"ap_fetch", "ap_events", "ap_index"}
       /\ \A v \in DOMAIN events', w \in DOMAIN events' :
              /\ events'[v].type = "Destroyed" /\ events'[w].twin_id = events'[v].twin_id
              /\ w > v
              => events'[w].type # "TelemetryReceived"]_vars
----------------------------------------------------------------------------
(* Claims about the configuration *)

(* C25: with max_active_twins = Some(n), the registry never holds more     *)
(* than n twins.                                                           *)
C25_ResidentBounded ==
    \A n \in max_active_twins : Cardinality(DOMAIN active_twins) <= n
----------------------------------------------------------------------------
(* Claims about the background eviction task *)

(* a step of a caller's create_twin, get_twin or update_telemetry on id,   *)
(* or a caller's touch of the resident twin                               *)
Access(id) ==
    /\ loc'[EvictionTask] = loc[EvictionTask]
    /\ \/ \E p \in Procs \ {EvictionTask} :
             /\ loc'[p] # loc[p]
             /\ \/ /\ loc[p].id = id
                   /\ loc[p].op \in {"create_twin", "get_twin", "update_telemetry"}
                \/ /\ loc'[p].id = id
                   /\ loc'[p].op \in {"create_twin", "get_twin", "update_telemetry"}
       \/ /\ Resident(id) /\ Resident(id)'
          /\ inst[active_twins[id]].idle > 0
          /\ inst'[active_twins'[id]].idle = 0

IdleTwins ==
    {id \in DOMAIN active_twins : inst[active_twins[id]].idle > EvictionTimeout}

(* C27: a snapshot that fails during the sweep does not stop it: the sweep *)
(* goes on to remove the twin whose snapshot failed and then the other     *)
(* twins it collected, so that when evict_inactive returns no twin that    *)
(* was idle longer than the timeout is resident, and the task is back at   *)
(* the head of its loop.                                                   *)
C27_FailedSnapshotSweepGoesOn ==
    [][\A p \in Procs :
          loc[p].op = "evict_inactive" /\ loc'[p] # loc[p] =>
              /\ loc[p].pc = "sn_save" =>
                     /\ loc'[p].op = "evict_inactive" /\ loc'[p].pc = "ev_remove"
                     /\ loc'[p].id = loc[p].id /\ loc'[p].to_evict = loc[p].to_evict
              /\ loc[p].pc = "ev_remove" => loc[p].id \notin DOMAIN active_twins'
              /\ loc'[p].op # "evict_inactive" => loc'[p] = IdleLoc /\ IdleTwins' = {}]_vars

(* the snapshot of one twin failed, the sweep removed that twin without a  *)
(* snapshot and went on: it is about to remove the last twin it collected  *)
C27_Witness ==
    \E p \in Procs :
        /\ loc[p].op = "evict_inactive" /\ loc[p].pc = "ev_remove"
        /\ loc[p].err = "SnapshotFailed"
        /\ loc[p].to_evict = {loc[p].id}
        /\ \E id \in KnownIds : id # loc[p].id /\ ~Resident(id) /\ id \notin DOMAIN snapshots
----------------------------------------------------------------------------
(* Claims about the snapshot store *)

(* a snapshot without its timestamp *)
Content(snapshot) == [snapshot EXCEPT !.timestamp = 0]

(* what is stored for twin_id in the snapshot map snaps, without the timestamp *)
StoredIn(snaps, twin_id) ==
    IF twin_id \in DOMAIN snaps THEN {Content(snaps[twin_id])} ELSE {}

(* C28: one snapshot per twin, the newest wins.  A save_snapshot makes its *)
(* snapshot the one get_snapshot returns for its twin and changes no other *)
(* twin's; between saves the snapshot of a twin stays or is cleaned up;    *)
(* get_snapshot(id) returns what is stored for id, a snapshot of id or     *)
(* None.                                                                   *)
C28_NewestSnapshotWins ==
    [][/\ \A p \in Procs :
              loc'[p] # loc[p] /\ loc'[p].op = "save_snapshot" =>
                  /\ StoredIn(snapshots', loc'[p].id) = {Content(s) : s \in loc'[p].snap}
                  /\ \A id \in SnapshotIds :
                         id # loc'[p].id => StoredIn(snapshots', id) = StoredIn(snapshots, id)
       /\ \A p \in Procs :
              loc'[p] # loc[p] /\ loc'[p].op = "get_snapshot" =>
                  /\ loc'[p].snap = get_snapshot(loc'[p].id)
                  /\ \A s \in loc'[p].snap : s.twin_id = loc'[p].id
                  /\ snapshots' = snapshots
       /\ \A id \in SnapshotIds :
              \/ StoredIn(snapshots', id) = StoredIn(snapshots, id)
              \/ StoredIn(snapshots', id) = {}
              \/ \E p \in Procs :
                    /\ loc'[p].op = "save_snapshot" /\ loc'[p].id = id
                    /\ StoredIn(snapshots', id) = {Content(s) : s \in loc'[p].snap}]_vars

(* two tasks saved different snapshots of one twin; the later one is what  *)
(* the store holds for it, next to the snapshot of another twin            *)
C28_Witness ==
    \E p \in Procs, q \in Procs :
        /\ loc[p].op = "save_snapshot" /\ loc[q].op = "save_snapshot"
        /\ loc[q].id = loc[p].id
        /\ loc[p].snap # loc[q].snap
        /\ StoredIn(snapshots, loc[q].id) = {Content(s) : s \in loc[q].snap}
        /\ Cardinality(DOMAIN snapshots) > 1
----------------------------------------------------------------------------
(* Claims about the sled store across restarts *)

(* the versions of the keys of the events tree *)
StoredVersions == {from_be_bytes(k) : k \in DOMAIN sled_events}

(* events left by appends that a crash cut short: stored, never returned,   *)
(* no task is writing them                                                 *)
OrphanVersions ==
    {v \in StoredVersions :
        /\ \A i \in DOMAIN sled_history : sled_history[i][1] # v
        /\ \A p \in Procs : loc[p].op = "sled_append" => loc[p].ver # v}

(* C29: the counter survives a restart.  Also when the store was reopened, *)
(* after a crash in the middle of an append too, the version an append     *)
(* takes is greater than every version key of the events tree, and its     *)
(* insert overwrites no stored event.                                      *)
C29_CounterSurvivesRestart ==
    [][\A p \in Procs :
          /\ loc[p].pc = "sl_fetch" /\ loc'[p].pc = "sl_events" =>
                 \A v \in StoredVersions : loc'[p].ver > v
          /\ loc[p].pc = "sl_events" /\ loc'[p].pc = "sl_index_get" =>
                 /\ to_be_bytes(loc[p].ver) \notin DOMAIN sled_events
                 /\ \A k \in DOMAIN sled_events : sled_events'[k] = sled_events[k]]_vars

(* a crash cut an append short and left its event; an append started on    *)
(* the reopened store has inserted its event under a greater version       *)
C29_Witness ==
    \E v \in OrphanVersions, p \in Procs :
        /\ loc[p].op = "sled_append" /\ loc[p].pc = "sl_index_put"
        /\ loc[p].ver > v
        /\ to_be_bytes(loc[p].ver) \in DOMAIN sled_events
----------------------------------------------------------------------------
(* Claims about Twin::send *)

(* C30: a send that returns an error leaves the twin as it was,            *)
(* updated_at and the properties included.                                 *)
C30_FailedSendKeepsState ==
    [][\A p \in Procs :
          /\ loc[p].op = "twin" /\ loc'[p].op = "twin" /\ loc'[p] # loc[p]
          /\ ~loc'[p].ok
          => loc'[p].tw = loc[p].tw]_vars
----------------------------------------------------------------------------
(* Claims about clones *)

(* C31: what clone_twin returns has a fresh id, the source as parent, the  *)
(* class and the properties of the source, is not hypothetical and has no  *)
(* simulation time, whatever the source is; later changes of the source    *)
(* leave it alone.                                                         *)
C31_OrdinaryClone ==
    [][\A q \in Procs :
          /\ loc'[q].op = "clone_twin" /\ loc'[q] # loc[q] /\ loc[q].tw # loc'[q].tw
             /\ (\A c \in loc'[q].tw, o \in loc[q].tw : c.id # o.id)
             => \E p \in Procs \ {q} : \E s \in loc[p].tw, c \in loc'[q].tw :
                   /\ c.id # s.id
                   /\ c.parent_id = {s.id}
                   /\ c.class_name = s.class_name
                   /\ c.properties = s.properties
                   /\ ~c.is_hypothetical
                   /\ c.simulation_time = {}
          /\ \A p \in Procs \ {q} :
                 /\ loc'[p].tw # loc[p].tw
                 /\ loc[q].op = "clone_twin" /\ loc'[q].op = "clone_twin"
                 => loc'[q].tw = loc[q].tw]_vars
(* C32: set_simulation_time(time) on a hypothetical twin returns Ok and    *)
(* changes simulation_time to Some(time) and nothing else; on any other    *)
(* twin it returns an error and changes nothing.                           *)
C32_SimulationTimeOnlyHypothetical ==
    [][\A p \in Procs, time \in CloneTimes :
          LocalSetSimulationTime(p, time) =>
              \A twin \in loc[p].tw :
                  IF twin.is_hypothetical
                  THEN /\ loc'[p].ok
                       /\ loc'[p].tw = {[twin EXCEPT !.simulation_time = {time}]}
                  ELSE /\ ~loc'[p].ok /\ loc'[p].err = "NotHypothetical"
                       /\ loc'[p].tw = loc[p].tw]_vars

(* one task was refused on its ordinary twin; the other moved the          *)
(* simulation time of its hypothetical twin before the time it was cloned  *)
C32_Witness ==
    \E p \in Procs, q \in Procs :
        /\ OwnsTwin(p) /\ loc[p].err = "NotHypothetical"
        /\ \A twin \in loc[p].tw : ~twin.is_hypothetical /\ twin.simulation_time = {}
        /\ OwnsTwin(q) /\ loc[q].ok
        /\ \E twin \in loc[q].tw :
              /\ twin.is_hypothetical
              /\ \E time \in twin.simulation_time : time < twin.created_at
----------------------------------------------------------------------------
(* Claims about the replay *)

(* the ids TwinId::new() may return during a load *)
ReplayIds == {GeneratedId, 1, 2}

(* the runs a load can have: the generated id, the two clock readings *)
ReplayRuns == {r \in ReplayIds \X ClockReadings \X ClockReadings : r[2] <= r[3]}

(* C33: the replay is deterministic.  Whenever a load has read a snapshot  *)
(* (or none) and the events after it, every run of the load on these two,  *)
(* whatever the time and the id it generates, builds the same property     *)
(* map, the one the twin of this load gets.                                *)
C33_ReplayDeterministic ==
    [][\A p \in Procs :
          loc[p].pc = "ld_events" /\ loc'[p].pc = "ld_insert" =>
              LET evs == get_events(loc[p].id, StartVersion(loc[p].snap))
                  Built(r) == LoadBuildAt(loc[p].snap, evs, r[1], r[2], r[3])
                  built == {Built(r) : r \in ReplayRuns}
              IN /\ \A b \in built : b.ok
                 /\ {b.twin.properties : b \in built} = {t.properties : t \in loc'[p].tw}
                 /\ Cardinality(loc'[p].tw) = 1]_vars

(* a load built its twin from a snapshot and telemetry appended after it *)
C33_Witness ==
    \E p \in Procs :
        /\ loc[p].pc = "ld_insert" /\ loc[p].id \in DOMAIN snapshots
        /\ \E v \in DOMAIN events :
              /\ events[v].twin_id = loc[p].id /\ events[v].type = "TelemetryReceived"
              /\ v > snapshots[loc[p].id].event_version
              /\ \A t \in loc[p].tw :
                    /\ t.properties # snapshots[loc[p].id].properties
                    /\ t.properties # EmptyMap
(* C34: every entry of the registry is keyed by the id its twin reports. *)
C34_RegistryKeyIsTwinId ==
    \A id \in DOMAIN active_twins : TwinOf(id).id = id
----------------------------------------------------------------------------
(* Claims about snapshots taken while telemetry arrives *)

(* the properties the events of id up to version upto add up to *)
PropertiesUpTo(id, upto) ==
    LET Upto(e) == e[1] <= upto
        evs == SelectSeq(get_events(id, 0), Upto)
    IN Replay(TwinNew(id, "Sensor"), evs, 2).properties

(* C35: a snapshot agrees with its event_version.  Once the calls have     *)
(* returned, the properties of every stored snapshot are those of the      *)
(* events of its twin with a version up to its event_version.              *)
C35_SnapshotMatchesVersion ==
    (\A p \in Procs : CanCall(p)) =>
        \A id \in DOMAIN snapshots :
            snapshots[id].properties = PropertiesUpTo(id, snapshots[id].event_version)
(* C36: no telemetry is lost to a load.  Once get_twin and the             *)
(* update_telemetry calls have returned, a resident twin has the           *)
(* properties its stored events add up to.                                 *)
C36_LoadSeesTelemetry ==
    (\A p \in Procs : CanCall(p)) =>
        \A id \in DOMAIN active_twins :
            Fold(id).ok => TwinOf(id).properties = Fold(id).properties
----------------------------------------------------------------------------
(* The registry's entry guards and the runtime's worker threads.            *)
(* active_twins.get and .iter return a guard holding the entry's shard      *)
(* for reading until it is dropped; insert and remove take the shard for    *)
(* writing and block the calling thread until no guard is left.  An .await  *)
(* either completes at once or suspends the task, which then leaves its     *)
(* worker thread and keeps what it holds.                                   *)

(* #[tokio::test]: the runtime under test has one worker thread *)
Workers == 1

(* the awaits the runtime reaches with an entry guard in hand *)
GuardedAwaits == {"gt_touch", "ut_read", "ut_touch", "ut_write"}

Suspended(at) == at \o "_wait"

SuspendedPcs == {Suspended(at) : at \in GuardedAwaits}

(* the task occupies a worker thread *)
OnThread(p) == ~CanCall(p) /\ loc[p].pc \notin SuspendedPcs

FreeThread == Cardinality({p \in Procs : OnThread(p)}) < Workers

(* the task holds the guard of the entry of id *)
HoldsRef(p, id) ==
    /\ loc[p].id = id
    /\ loc[p].pc \in GuardedAwaits \cup SuspendedPcs

(* insert(id) and remove(id) of task p return: no other guard on the entry *)
ShardFree(p, id) == \A q \in Procs \ {p} : ~HoldsRef(q, id)

(* the task is at the await and runs: it got there on its thread, or it    *)
(* was suspended there and a worker thread picks it up                     *)
AtAwait(p, at) ==
    \/ loc[p].pc = at
    \/ loc[p].pc = Suspended(at) /\ FreeThread

(* the await returns Pending: the task is suspended with its guard *)
Suspend(p) ==
    /\ loc[p].pc \in GuardedAwaits
    /\ loc' = [loc EXCEPT ![p].pc = Suspended(loc[p].pc)]
    /\ UNCHANGED <<sledVars, storeVars, active_twins, inst, snapshot_on_eviction, uuid_counter,
                   hypothetical_ids, last_evicted>>

(* the appends the bounded log still has room for, counting the calls that *)
(* have not reached their append                                           *)
GuardedBudget ==
    version_counter
      + Cardinality({q \in Procs : loc[q].pc \in {"ap_fetch", "ut_read", Suspended("ut_read")}})
      < MaxVersion

(* Runtime::get_twin: active_twins.get(&twin_id).  A hit keeps the guard   *)
(* and goes on to twin.touch().await; a miss goes on to load_twin.         *)
GuardedLookup(p, l) ==
    /\ loc' = [loc EXCEPT ![p] =
                 IF Resident(l.id)
                 THEN [l EXCEPT !.pc = "gt_touch", !.h = active_twins[l.id]]
                 ELSE [l EXCEPT !.pc = "ld_snapshot"]]
    /\ inst' = Collect(inst, active_twins, loc')
    /\ UNCHANGED <<sledVars, storeVars, active_twins, snapshot_on_eviction, uuid_counter,
                   hypothetical_ids, last_evicted>>

(* ... twin.touch().await; return Ok(Arc::clone(&twin)), dropping the guard *)
GuardedTouch(p) ==
    /\ AtAwait(p, "gt_touch")
    /\ loc' = [loc EXCEPT ![p] = AfterGetTwin(loc[p])]
    /\ inst' = Collect(Touch(inst, loc[p].h), active_twins, loc')
    /\ UNCHANGED <<sledVars, storeVars, active_twins, snapshot_on_eviction, uuid_counter,
                   hypothetical_ids, last_evicted>>

GuardedGetTwin(p, id) ==
    /\ CanCall(p)
    /\ FreeThread
    /\ GuardedLookup(p, [IdleLoc EXCEPT !.op = "get_twin", !.id = id])

GuardedSnapshotTwin(p, id) ==
    /\ CanCall(p)
    /\ FreeThread
    /\ GuardedLookup(p, [IdleLoc EXCEPT !.op = "snapshot_twin", !.id = id])

(* Runtime::update_telemetry: active_twins.get(&twin_id), then             *)
(* active.twin.read().await with the guard in hand                         *)
GuardedUpdateTelemetry(p, id, data) ==
    /\ CanCall(p)
    /\ FreeThread
    /\ GuardedBudget
    /\ LET l == [IdleLoc EXCEPT !.op = "update_telemetry", !.id = id, !.data = data]
       IN loc' = [loc EXCEPT ![p] =
                    IF Resident(id)
                    THEN [l EXCEPT !.pc = "ut_read", !.h = active_twins[id]]
                    ELSE BeginAppend(l, TelemetryEvent(id, data))]
    /\ inst' = Collect(inst, active_twins, loc')
    /\ UNCHANGED <<sledVars, storeVars, active_twins, snapshot_on_eviction, uuid_counter,
                   hypothetical_ids, last_evicted>>

(* ... twin.is_hypothetical() under the read lock; guard and lock are      *)
(* dropped, and the event of a persistent twin is appended                 *)
GuardedRead(p) ==
    /\ AtAwait(p, "ut_read")
    /\ LET l == [loc[p] EXCEPT !.h = 0]
       IN loc' = [loc EXCEPT ![p] =
                    IF inst[loc[p].h].twin.is_hypothetical
                    THEN [l EXCEPT !.pc = "ut_apply"]
                    ELSE BeginAppend(l, TelemetryEvent(l.id, l.data))]
    /\ inst' = Collect(inst, active_twins, loc')
    /\ UNCHANGED <<sledVars, storeVars, active_twins, snapshot_on_eviction, uuid_counter,
                   hypothetical_ids, last_evicted>>

(* ... the second active_twins.get(&twin_id) *)
GuardedApplyLookup(p) ==
    /\ loc[p].pc = "ut_apply"
    /\ loc' = [loc EXCEPT ![p] =
                 IF Resident(loc[p].id)
                 THEN [loc[p] EXCEPT !.pc = "ut_touch", !.h = active_twins[loc[p].id]]
                 ELSE Done(loc[p])]
    /\ inst' = Collect(inst, active_twins, loc')
    /\ UNCHANGED <<sledVars, storeVars, active_twins, snapshot_on_eviction, uuid_counter,
                   hypothetical_ids, last_evicted>>

(* ... active.touch().await *)
GuardedApplyTouch(p) ==
    /\ AtAwait(p, "ut_touch")
    /\ loc' = [loc EXCEPT ![p].pc = "ut_write"]
    /\ inst' = Touch(inst, loc[p].h)
    /\ UNCHANGED <<sledVars, storeVars, active_twins, snapshot_on_eviction, uuid_counter,
                   hypothetical_ids, last_evicted>>

(* ... active.twin.write().await and twin.send(UpdateProperties) *)
GuardedApplyWrite(p) ==
    /\ AtAwait(p, "ut_write")
    /\ loc' = [loc EXCEPT ![p] = Done([loc[p] EXCEPT !.h = 0])]
    /\ LET s == loc[p].h
           sent == TwinSend(inst[s].twin, UpdateProperties(BoxTelemetry(loc[p].data)))
       IN inst' = Collect([inst EXCEPT ![s].twin = sent.twin], active_twins, loc')
    /\ UNCHANGED <<sledVars, storeVars, active_twins, snapshot_on_eviction, uuid_counter,
                   hypothetical_ids, last_evicted>>

(* the remaining calls start on a free worker thread *)
GuardedCreateTwin(p, class_name) ==
    FreeThread /\ GuardedBudget /\ CallCreateTwin(p, class_name)

GuardedEvictInactive(p) == FreeThread /\ CallEvictInactive(p)

(* evict_inactive: self.snapshot_twin(twin_id), which starts with get_twin *)
GuardedEvictSnapshot(p) ==
    /\ loc[p].pc = "ev_snap"
    /\ GuardedLookup(p, loc[p])

(* active_twins.remove and .insert wait for the guards of other tasks *)
GuardedEvictRemove(p) == ShardFree(p, loc[p].id) /\ EvictRemove(p)

GuardedLoadInsert(p) == ShardFree(p, loc[p].id) /\ LoadInsert(p)

(* what a task does once its call has started, suspensions aside *)
TaskStep(p) ==
    \/ GuardedTouch(p)
    \/ GuardedRead(p)
    \/ GuardedApplyLookup(p)
    \/ GuardedApplyTouch(p)
    \/ GuardedApplyWrite(p)
    \/ GuardedEvictSnapshot(p)
    \/ GuardedEvictRemove(p)
    \/ LoadGetSnapshot(p)
    \/ LoadGetEvents(p)
    \/ GuardedLoadInsert(p)
    \/ CreateInsert(p)
    \/ AppendSteps(p)
    \/ SnapSteps(p)

(* Tasks spawned on the runtime call create_twin, get_twin,                 *)
(* update_telemetry, snapshot_twin and evict_inactive while time passes     *)
GuardsNext ==
    \/ Tick
    \/ \E p \in Procs :
        \/ GuardedCreateTwin(p, "Sensor")
        \/ \E id \in KnownIds : GuardedGetTwin(p, id)
        \/ \E id \in KnownIds : GuardedSnapshotTwin(p, id)
        \/ \E id \in KnownIds, data \in TelemetryInputs : GuardedUpdateTelemetry(p, id, data)
        \/ GuardedEvictInactive(p)
        \/ Suspend(p)
        \/ TaskStep(p)

(* the runtime runs every task that can run *)
SpecGuards ==
    Init /\ [][GuardsNext]_vars /\ \A p \in Procs : WF_vars(TaskStep(p))

(* Claims about the event log as a whole *)

(* C37: the log is well-formed.  Of the stored events of an id, the one    *)
(* with the lowest version is Created.                                     *)
C37_LogStartsWithCreated ==
    \A v \in DOMAIN events :
        (\A w \in DOMAIN events : events[w].twin_id = events[v].twin_id => v <= w)
            => events[v].type = "Created"
----------------------------------------------------------------------------
(* Claims about store failures *)

(* C38: when append fails inside update_telemetry, the call ends there,    *)
(* the resident twins are as they were, and the events a reader gets for   *)
(* the twin are those of before the call: none has a version above the     *)
(* latest version at the call.                                             *)
C38_FailedAppendLeavesNoEvent ==
    [][\A p \in Procs :
          /\ loc[p].op = "update_telemetry"
          /\ loc[p].pc \in {"ap_fetch", "ap_events", "ap_index"}
          /\ loc'[p].pc = "idle"
          => /\ inst' = inst
             /\ \A v \in Range(MapGet(twin_events', loc[p].id, <<>>)) :
                    v \in DOMAIN events' => v <= loc[p].pre_ctr]_vars
----------------------------------------------------------------------------
(* Claims about the registry's guards *)

(* C39: concurrent Runtime operations never deadlock.  Every call a task   *)
(* has started eventually completes.                                       *)
C39_EveryCallCompletes ==
    \A p \in Procs : ~CanCall(p) ~> CanCall(p)
----------------------------------------------------------------------------
(* Claims about the sled store's two trees *)

(* C40: events and index stay consistent.  Whenever no append is under way *)
(* (also after a crash and reopening), every version the twin_events index *)
(* lists for a twin has a stored event of that twin, and every stored      *)
(* event is listed in the index of its twin.                               *)
C40_IndexMatchesEvents ==
    (\A p \in Procs : CanCall(p)) =>
        /\ \A twin_id \in DOMAIN sled_twin_events :
              \A v \in Range(sled_versions(twin_id)) :
                  /\ to_be_bytes(v) \in DOMAIN sled_events
                  /\ decode_from_slice(sled_events[to_be_bytes(v)]).twin_id = twin_id
        /\ \A k \in DOMAIN sled_events :
              from_be_bytes(k) \in Range(sled_versions(decode_from_slice(sled_events[k]).twin_id))
====
